---- MODULE Spec2Model ----
(***************************************************************************)
(* State-machine model of mtsGalilController (sawGalilController):         *)
(* the periodic Run() cycle (data-record decoding, aggregate power/motion  *)
(* flags, mixed-power guard, operating-state events), the commands that    *)
(* ProcessQueuedCommands executes inside a cycle (Home, UnHome, FindEdge,  *)
(* FindIndex, servo_jp/jr/jv, hold, Enable/DisableMotorPower) and the      *)
(* homing state machine at the end of Run().                               *)
(*                                                                         *)
(* Conventions: logical axes are 1..mNumAxes (C++ index i is axis i+1),    *)
(* Galil channels keep their C++ numbering 0..mGalilIndexMax-1.  Doubles   *)
(* are integers in thousandths (0.025 is 25).  Commands sent to the        *)
(* controller are strings built the way WriteCmdAxes / WriteCmdValues /    *)
(* sprintf build them.                                                     *)
(***************************************************************************)
EXTENDS Integers, Sequences, FiniteSets, TLC

(***************************************************************************)
(* Bounds of the model                                                     *)
(***************************************************************************)
\* requests executed by one ProcessQueuedCommands call
MaxCmds == 1

(***************************************************************************)
(* Program constants                                                       *)
(***************************************************************************)
ST_IDLE   == "ST_IDLE"
ST_HOMING == "ST_HOMING"

StatusMotorMoving == 32768
StatusMotorOff    == 1

SC_Running  == 0
SC_Stopped  == 1
SC_FwdLim   == 2
SC_RevLim   == 3
SC_StopCmd  == 4
SC_OnError  == 8
SC_FindEdge == 9
SC_Homing   == 10

\* sizeof of the packed axis structures
ADold == 28
ADnew == 30
ADmax == 36

NUM_MODELS == 6
\* model tables, C++ index m is element m+1
ModelTypes      == <<4000, 52000, 1806, 2103, 1802, 30000>>
AxisDataOffset  == <<82, 82, 78, 44, 40, 38>>
AxisDataSize    == <<ADmax, ADmax, ADnew, ADold, ADold, ADmax>>
HasLimitDisable == <<TRUE, TRUE, TRUE, FALSE, FALSE, TRUE>>
HasUserDataZA   == <<TRUE, TRUE, TRUE, FALSE, FALSE, TRUE>>

\* EnableMotorPower / DisableMotorPower: mTimeout = 20
PowerTimeout == 20
\* mSpeedDefault.SetAll(0.025), in thousandths
SpeedDefault == 25
\* "JG%c=-500" in the custom homing chain
FindIndexSpeed == -500

ENABLED_  == "ENABLED"
DISABLED_ == "DISABLED"
FAULT_    == "FAULT"

(***************************************************************************)
(* Helpers on vectors                                                      *)
(***************************************************************************)
AnyTrue(v) == \E i \in DOMAIN v : v[i]
AllTrue(v) == \A i \in DOMAIN v : v[i]
AnyNonZero(v) == \E i \in DOMAIN v : v[i] # 0

SeqMax(s) == CHOOSE x \in {s[i] : i \in DOMAIN s} : \A j \in DOMAIN s : s[j] <= x

\* bitwise or of two values of the 2-bit LD register
BitOr2(a, b) ==
    (IF (a % 2 = 1) \/ (b % 2 = 1) THEN 1 ELSE 0)
  + (IF ((a \div 2) % 2 = 1) \/ ((b \div 2) % 2 = 1) THEN 2 ELSE 0)

\* status & mask for a single-bit mask
BitSet(status, mask) == (status \div mask) % 2 = 1

\* std::round of (num / den), den > 0: half away from zero
RoundDiv(num, den) ==
    IF num >= 0 THEN (2 * num + den) \div (2 * den)
    ELSE -((2 * (-num) + den) \div (2 * den))

(***************************************************************************)
(* Text: sprintf("%d"), channel letters, command buffers                   *)
(***************************************************************************)
Digit(d) == <<"0", "1", "2", "3", "4", "5", "6", "7", "8", "9">>[d + 1]

RECURSIVE NatChars(_)
NatChars(n) == IF n < 10 THEN <<Digit(n)>> ELSE NatChars(n \div 10) \o <<Digit(n % 10)>>

\* the characters sprintf("%d", v) writes
IntChars(v) == IF v < 0 THEN <<"-">> \o NatChars(-v) ELSE NatChars(v)

\* 'A' + channel
ChanLetter(c) == <<"A", "B", "C", "D", "E", "F", "G", "H">>[c + 1]

\* the C string held by a character buffer
RECURSIVE StrOf(_)
StrOf(buf) == IF buf = <<>> THEN "" ELSE Head(buf) \o StrOf(Tail(buf))

\* WriteCmdAxes: command followed by the list of axes, e.g. "BG ABC"
WriteCmdAxes(cmd, axes) == cmd \o axes

\* the loop of WriteCmdValues from channel i on; valid and data are indexed
\* by channel (0-based) and num is the number of channels
RECURSIVE WriteValuesLoop(_, _, _, _, _)
WriteValuesLoop(buf, data, valid, i, num) ==
    IF i >= num THEN buf
    ELSE IF valid[i]
         THEN WriteValuesLoop(buf \o IntChars(data[i]) \o <<",">>, data, valid, i + 1, num)
         ELSE WriteValuesLoop(buf \o <<",">>, data, valid, i + 1, num)

\* variant of WriteCmdValues that leaves the last comma in place
WriteCmdValuesNoTrim(cmd, data, valid, num) ==
    StrOf(WriteValuesLoop(<<cmd>>, data, valid, 0, num))

\* WriteCmdValues: command followed by the list of values, e.g. "SP 1000,,500"
WriteCmdValues(cmd, data, valid, num) ==
    LET buf == WriteValuesLoop(<<cmd>>, data, valid, 0, num)
    IN  StrOf(SubSeq(buf, 1, Len(buf) - 1))

(***************************************************************************)
(* Configurations (the JSON file read by Configure and the controller's    *)
(* answers to the Startup queries).  index, is_absolute, home_pos, lower   *)
(* and upper are per logical axis; ld is the controller's answer to        *)
(* "LD ?,?" at Startup.                                                    *)
(***************************************************************************)
Configurations ==
    { \* DMC-4000, one incremental axis on channel B homing at its lower limit
      [model |-> 4000, index |-> <<1>>, is_absolute |-> <<FALSE>>,
       home_pos |-> <<0>>, lower |-> <<0>>, upper |-> <<100>>,
       scale |-> <<1000>>, offset |-> <<5>>, ld |-> <<0>>],
      \* DMC-2103 (no LD, no ZA), one incremental axis on channel A homing at
      \* its lower limit
      [model |-> 2103, index |-> <<0>>, is_absolute |-> <<FALSE>>,
       home_pos |-> <<0>>, lower |-> <<0>>, upper |-> <<100>>,
       scale |-> <<2000>>, offset |-> <<-7>>, ld |-> <<0>>],
      \* DMC-1806, channels C and A (non-monotonic), axis 2 has an absolute
      \* encoder, homing in mid-range
      [model |-> 1806, index |-> <<2, 0>>, is_absolute |-> <<FALSE, TRUE>>,
       home_pos |-> <<50, 50>>, lower |-> <<0, 0>>, upper |-> <<100, 100>>,
       scale |-> <<1000, 1000>>, offset |-> <<0, 0>>, ld |-> <<0, 0>>] }

\* what Startup can leave behind: GOpen failed, the connection was closed
\* again (model detection or GRecordRate failed), or the connection is open
StartupOutcomes == {"open_failed", "closed", "ok"}

(***************************************************************************)
(* State                                                                   *)
(***************************************************************************)
VARIABLES
    \* set by Configure / Startup, constant afterwards
    mModel, mNumAxes, mAxisToGalilIndexMap, mGalilIndexValid, mGalilIndexMax,
    mEncoderCountsPerUnit, mEncoderOffset, mEncoderAbsolute, mHomePos,
    mHomeLimitDisable, mLimitDisable, mHomeCustom,
    \* connection handle (TRUE: open)
    mGalil,
    \* per-axis state decoded from the data record
    mAxisStatus, mStopCode, mStopCodeChange, IsHomed,
    \* controller-wide state
    mMotionActive, mMotorPowerOn, mTimeout, mState, mHomingMask, m_op_state, mSpeed,
    \* position inside Run(): "record" (about to read the data record) or
    \* "queue" (inside ProcessQueuedCommands); nCmds counts executed requests
    pc, nCmds,
    \* what the last step did: its name and argument, the commands it sent to
    \* the controller, the messages and operating-state events it emitted
    op, sent, msgs, events,
    \* the locals isAnyMoving, isAllMotorOn, isAllMotorOff at the end of the
    \* axis loop of the last decoded record
    loopFlags,
    \* the last operating-state event that was emitted (history)
    lastEvent,
    \* history of the latest Run() cycles, one entry (the number of events
    \* the cycle emitted) per cycle: up to two consecutive quiet cycles
    \* (DISABLED computed while DISABLED is published, busy and fully-homed
    \* equal to the published values) and, third, the cycle after two quiet
    \* ones when it computes ENABLED with busy and fully-homed unchanged;
    \* empty after any other cycle
    quietLog,
    \* whether the Home request that started the homing session in progress
    \* sent an LD command (history; FALSE outside a session)
    sessionLD,
    \* the latest application of a helper function on its own: its name,
    \* arguments and results (used by the specifications of the helpers)
    fn,
    \* the number of cycles with a successfully read record since the latest
    \* call of EnableMotorPower or DisableMotorPower (history; PowerTimeout
    \* stands for PowerTimeout or more, and for no call so far)
    sincePower

cfgVars == <<mModel, mNumAxes, mAxisToGalilIndexMap, mGalilIndexValid, mGalilIndexMax,
             mEncoderCountsPerUnit, mEncoderOffset, mEncoderAbsolute, mHomePos,
             mHomeLimitDisable, mLimitDisable, mHomeCustom, mGalil>>
axisVars == <<mAxisStatus, mStopCode, mStopCodeChange, IsHomed>>
ctlVars  == <<mMotionActive, mMotorPowerOn, mTimeout, mState, mHomingMask, m_op_state, mSpeed>>
logVars  == <<op, sent, msgs, events, loopFlags, lastEvent, quietLog, sessionLD, fn, sincePower>>
vars == <<cfgVars, axisVars, ctlVars, pc, nCmds, logVars>>

Axes == 1..mNumAxes
Channels == 0..(mGalilIndexMax - 1)

NoEvent == [state |-> "none", busy |-> FALSE, homed |-> FALSE]

(***************************************************************************)
(* Configure and Startup                                                   *)
(***************************************************************************)
\* GetModelIndex (0-based; NUM_MODELS when not found)
GetModelIndex(modelType) ==
    IF \E m \in 1..NUM_MODELS : ModelTypes[m] = modelType
    THEN (CHOOSE m \in 1..NUM_MODELS : ModelTypes[m] = modelType) - 1
    ELSE NUM_MODELS

\* the limit switch to disable when homing, from the configured home position
HomeLimitDisableOf(c, a) ==
    IF c.home_pos[a] <= c.lower[a] THEN 2
    ELSE IF c.home_pos[a] >= c.upper[a] THEN 1
    ELSE 0

\* model tables at the selected model
ModelHasLD == HasLimitDisable[mModel + 1]
ModelHasZA == HasUserDataZA[mModel + 1]
ModelAxisDataSize == AxisDataSize[mModel + 1]

\* mHomeCustom as Startup computes it; the variant never selects the custom
\* sequence
HomeCustomNever(m, hld) == FALSE

HomeCustomOf(m, hld) == ~HasLimitDisable[m + 1] /\ AnyNonZero(hld)

InitConfig(c, startup) ==
    LET n  == Len(c.index)
        mx == SeqMax(c.index) + 1
        m  == GetModelIndex(c.model)
        ldOn == HasLimitDisable[m + 1] /\ startup # "open_failed"
        ld == [a \in 1..n |-> IF ldOn THEN c.ld[a] ELSE 0]
        hld == [a \in 1..n |-> IF ldOn THEN BitOr2(HomeLimitDisableOf(c, a), ld[a])
                                       ELSE HomeLimitDisableOf(c, a)]
    IN  /\ mModel = m
        /\ mNumAxes = n
        /\ mAxisToGalilIndexMap = c.index
        /\ mGalilIndexMax = mx
        /\ mGalilIndexValid = [ch \in 0..(mx - 1) |-> \E a \in 1..n : c.index[a] = ch]
        /\ mEncoderCountsPerUnit = c.scale
        /\ mEncoderOffset = c.offset
        /\ mEncoderAbsolute = c.is_absolute
        /\ mHomePos = c.home_pos
        /\ mLimitDisable = ld
        /\ mHomeLimitDisable = hld
        \* Startup returns before assigning mHomeCustom when GOpen fails
        /\ IF startup = "open_failed"
           THEN mHomeCustom \in BOOLEAN
           ELSE mHomeCustom = HomeCustomOf(m, hld)
        /\ mGalil = (startup = "ok")
        /\ IsHomed = c.is_absolute
        /\ m_op_state = [state |-> DISABLED_, busy |-> FALSE, homed |-> AllTrue(c.is_absolute)]
        \* SetSpeed(mSpeedDefault) in Startup succeeds only with an open connection
        /\ mSpeed = [a \in 1..n |-> IF startup = "open_failed" THEN 0 ELSE SpeedDefault]
        /\ mAxisStatus = [a \in 1..n |-> 0]
        /\ mStopCodeChange = [a \in 1..n |-> FALSE]
        /\ mHomingMask = [a \in 1..n |-> FALSE]

InitRest ==
    /\ mMotionActive = FALSE
    /\ mMotorPowerOn = FALSE
    /\ mTimeout = 0
    /\ mState = ST_IDLE
    /\ pc = "record"
    /\ nCmds = 0
    /\ op = [name |-> "Startup"]
    /\ sent = <<>>
    /\ msgs = <<>>
    /\ events = <<>>
    /\ loopFlags = [isAnyMoving |-> FALSE, isAllMotorOn |-> TRUE, isAllMotorOff |-> TRUE]
    /\ lastEvent = NoEvent
    /\ quietLog = <<>>
    /\ sessionLD = FALSE
    /\ fn = [name |-> "none"]
    /\ sincePower = PowerTimeout

(***************************************************************************)
(* Sending commands                                                        *)
(***************************************************************************)
\* SendCommand: the command goes out only on an open connection
SendCommand(cmd) == IF mGalil THEN <<cmd>> ELSE <<>>

\* mGalilIndexToAxisMap as Configure fills it: the axis written last for a
\* channel, mNumAxes (the invalid value) for a channel of no axis; axes are
\* numbered from 0 as in the source
GalilIndexToAxisMap ==
    [ch \in 0..7 |->
        IF \E i \in Axes : mAxisToGalilIndexMap[i] = ch
        THEN (CHOOSE i \in Axes :
                 /\ mAxisToGalilIndexMap[i] = ch
                 /\ \A j \in Axes : mAxisToGalilIndexMap[j] = ch => j <= i) - 1
        ELSE mNumAxes]

\* variant of GetGalilIndexValid that takes the axis number for the channel
GetGalilIndexValidLogical(mask) ==
    [ch \in Channels |-> \E i \in DOMAIN mask : mask[i] /\ i \in Axes /\ i - 1 = ch]

\* GetGalilIndexValid: the channels of the axes selected by mask
GetGalilIndexValid(mask) ==
    [ch \in Channels |-> \E i \in DOMAIN mask :
                            mask[i] /\ i \in Axes /\ mAxisToGalilIndexMap[i] = ch]

\* the loop of GetGalilAxes / Configure from channel i on
RECURSIVE GalilAxesLoop(_, _, _)
GalilAxesLoop(str, galilIndexValid, i) ==
    IF i >= mGalilIndexMax THEN str
    ELSE GalilAxesLoop(IF galilIndexValid[i] THEN str \o ChanLetter(i) ELSE str,
                       galilIndexValid, i + 1)

\* GetGalilAxes: the letters of the valid channels
GetGalilAxes(galilIndexValid) == GalilAxesLoop("", galilIndexValid, 0)

\* mGalilAxes, built by Configure from mGalilIndexValid
mGalilAxes == GetGalilAxes(mGalilIndexValid)

\* the channel-indexed galilData filled by galil_cmd_common (a later axis
\* overwrites an earlier one on the same channel); channels of no axis are
\* never printed (mGalilIndexValid is false there)
GalilDataOf(value) ==
    [ch \in Channels |->
        IF \E i \in Axes : mAxisToGalilIndexMap[i] = ch
        THEN value[CHOOSE i \in Axes :
                      /\ mAxisToGalilIndexMap[i] = ch
                      /\ \A j \in Axes : mAxisToGalilIndexMap[j] = ch => j <= i]
        ELSE 0]

\* galil_cmd_common (vctDoubleVec): data in thousandths of a unit
galil_cmd_common(cmdName, cmdGalil, data, useOffset) ==
    IF ~mGalil THEN [ok |-> FALSE, sent |-> <<>>, msgs |-> <<>>]
    ELSE IF Len(data) # mNumAxes
    THEN [ok |-> FALSE, sent |-> <<>>, msgs |-> <<"error: size mismatch in " \o cmdName>>]
    ELSE LET value == [i \in Axes |->
                          RoundDiv(data[i] * mEncoderCountsPerUnit[i], 1000)
                          + (IF useOffset THEN mEncoderOffset[i] ELSE 0)]
         IN  [ok |-> TRUE,
              sent |-> SendCommand(WriteCmdValues(cmdGalil, GalilDataOf(value),
                                                  mGalilIndexValid, mGalilIndexMax)),
              msgs |-> <<>>]

\* galil_cmd_common (vctIntVec): data sent as it is
galil_cmd_common_int(cmdName, cmdGalil, data) ==
    IF ~mGalil THEN [ok |-> FALSE, sent |-> <<>>, msgs |-> <<>>]
    ELSE IF Len(data) # mNumAxes
    THEN [ok |-> FALSE, sent |-> <<>>, msgs |-> <<"error: size mismatch in " \o cmdName>>]
    ELSE [ok |-> TRUE,
          sent |-> SendCommand(WriteCmdValues(cmdGalil, GalilDataOf(data),
                                              mGalilIndexValid, mGalilIndexMax)),
          msgs |-> <<>>]

\* SetSpeed: mSpeed is replaced only when the command went out
SetSpeed(spd) ==
    LET r == galil_cmd_common("SetSpeed", "SP ", spd, FALSE)
    IN  [sent |-> r.sent, msgs |-> r.msgs, speed |-> IF r.ok THEN spd ELSE mSpeed]

\* DisableMotorPower: what it sends; it reads mMotionActive as it is when called
DisableMotorPowerCmds ==
    LET sp == SetSpeed(mSpeed)
    IN  [sent |-> (IF mMotionActive
                   THEN SendCommand(WriteCmdAxes("ST ", mGalilAxes))
                        \o SendCommand(WriteCmdAxes("AM ", mGalilAxes))
                        \o sp.sent
                   ELSE <<>>)
                  \o SendCommand(WriteCmdAxes("MO ", mGalilAxes)),
         msgs |-> IF mMotionActive THEN sp.msgs ELSE <<>>,
         speed |-> IF mMotionActive THEN sp.speed ELSE mSpeed]

(***************************************************************************)
(* Run(): reading and decoding the data record                             *)
(***************************************************************************)
\* the three flags after one axis: "Now process the data"; the variant
\* misses the else branch that clears isAllMotorOff
AxisFlagsNoElse(acc, moving, off) ==
    [isAnyMoving   |-> IF moving THEN TRUE ELSE acc.isAnyMoving,
     isAllMotorOn  |-> IF off THEN FALSE ELSE acc.isAllMotorOn,
     isAllMotorOff |-> acc.isAllMotorOff]

AxisFlags(acc, moving, off) ==
    [isAnyMoving   |-> IF moving THEN TRUE ELSE acc.isAnyMoving,
     isAllMotorOn  |-> IF off THEN FALSE ELSE acc.isAllMotorOn,
     isAllMotorOff |-> IF off THEN acc.isAllMotorOff ELSE FALSE]

\* the axis loop of Run from axis i on.  gRec maps a channel to its axis
\* data [status, stop_code, var]; acc holds the vectors and the three flags
RECURSIVE AxisLoop(_, _, _)
AxisLoop(gRec, i, acc) ==
    IF i > mNumAxes THEN acc
    ELSE LET axisPtr == gRec[mAxisToGalilIndexMap[i]]
             moving == BitSet(axisPtr.status, StatusMotorMoving)
             off == BitSet(axisPtr.status, StatusMotorOff)
             flags == AxisFlags(acc, moving, off)
         IN  AxisLoop(gRec, i + 1,
                 [status |-> [acc.status EXCEPT ![i] = axisPtr.status],
                  change |-> [acc.change EXCEPT ![i] = (acc.stop[i] # axisPtr.stop_code)],
                  stop   |-> [acc.stop EXCEPT ![i] = axisPtr.stop_code],
                  homed  |-> [acc.homed EXCEPT ![i] =
                                 IF mEncoderAbsolute[i] THEN TRUE
                                 ELSE IF ModelAxisDataSize = ADmax THEN axisPtr.var # 0
                                 ELSE @],
                  isAnyMoving   |-> flags.isAnyMoving,
                  isAllMotorOn  |-> flags.isAllMotorOn,
                  isAllMotorOff |-> flags.isAllMotorOff])

DecodeRecord(gRec) ==
    AxisLoop(gRec, 1,
             [status |-> mAxisStatus, change |-> mStopCodeChange, stop |-> mStopCode,
              homed |-> IsHomed,
              isAnyMoving |-> FALSE, isAllMotorOn |-> TRUE, isAllMotorOff |-> TRUE])

\* the mixed-power test after the guard counter was decremented to
\* timeout1; the variant ignores the guard counter
ForcePowerOffUnguarded(d, timeout1) == ~d.isAllMotorOn /\ ~d.isAllMotorOff

\* variant that fires one cycle before the guard counter reaches zero
ForcePowerOffEarly(d, timeout1) == ~d.isAllMotorOn /\ ~d.isAllMotorOff /\ (timeout1 <= 1)

ForcePowerOff(d, timeout1) == ~d.isAllMotorOn /\ ~d.isAllMotorOff /\ (timeout1 = 0)

\* what the GRecord error branch assigns; the variant reports a lost
\* record as motor power off
RecordErrorDisabled ==
    [newState |-> DISABLED_, busy |-> FALSE, motionActive |-> FALSE, motorPowerOn |-> FALSE]

RecordError ==
    [newState |-> FAULT_, busy |-> FALSE, motionActive |-> FALSE, motorPowerOn |-> FALSE]

\* variant of the comparison below that does not compare the state
PublishOpStateNoState(newState, busyNow, motionActive, isAllHomed) ==
    LET cur == [m_op_state EXCEPT !.busy = busyNow]
    IN  IF (motionActive # cur.busy) \/ (isAllHomed # cur.homed)
        THEN [state |-> [state |-> newState, busy |-> motionActive, homed |-> isAllHomed],
              events |-> <<[state |-> newState, busy |-> motionActive, homed |-> isAllHomed]>>]
        ELSE [state |-> cur, events |-> <<>>]

\* the comparison at the end of the record branch: m_op_state after it and
\* the events it triggers.  busyNow is what SetIsBusy stored just before
PublishOpState(newState, busyNow, motionActive, isAllHomed) ==
    LET cur == [m_op_state EXCEPT !.busy = busyNow]
    IN  IF (newState # cur.state) \/ (motionActive # cur.busy) \/ (isAllHomed # cur.homed)
        THEN [state |-> [state |-> newState, busy |-> motionActive, homed |-> isAllHomed],
              events |-> <<[state |-> newState, busy |-> motionActive, homed |-> isAllHomed]>>]
        ELSE [state |-> cur, events |-> <<>>]

\* history: a cycle is quiet when it computes DISABLED while DISABLED is
\* published and busy and fully-homed equal the published values
QuietCycle(newState, motionActive, isAllHomed) ==
    /\ newState = DISABLED_
    /\ m_op_state.state = DISABLED_
    /\ m_op_state.busy = motionActive
    /\ m_op_state.homed = isAllHomed

\* history: the cycle computes ENABLED while DISABLED is published, with
\* busy and fully-homed equal to the published values
WakeCycle(newState, motionActive, isAllHomed) ==
    /\ newState = ENABLED_
    /\ m_op_state.state = DISABLED_
    /\ m_op_state.busy = motionActive
    /\ m_op_state.homed = isAllHomed

HistoryAfter(newState, motionActive, isAllHomed, ev) ==
    /\ lastEvent' = IF ev = <<>> THEN lastEvent ELSE ev[Len(ev)]
    /\ quietLog' = IF QuietCycle(newState, motionActive, isAllHomed)
                   THEN IF Len(quietLog) < 2 THEN Append(quietLog, Len(ev))
                        ELSE IF Len(quietLog) = 2 THEN <<quietLog[2], Len(ev)>>
                        ELSE <<Len(ev)>>
                   ELSE IF Len(quietLog) = 2 /\ WakeCycle(newState, motionActive, isAllHomed)
                   THEN Append(quietLog, Len(ev))
                   ELSE <<>>

\* Run with an open connection and GRecord returning G_NO_ERROR
RunRecord(gRec) ==
    /\ pc = "record"
    /\ mGalil
    /\ \E d \in {DecodeRecord(gRec)} :
       LET timeout1 == IF mTimeout > 0 THEN mTimeout - 1 ELSE mTimeout
           forceOff == ForcePowerOff(d, timeout1)
           dis == DisableMotorPowerCmds
           isAllMotorOn == IF forceOff THEN FALSE ELSE d.isAllMotorOn
           newState == IF isAllMotorOn THEN ENABLED_ ELSE DISABLED_
           pub == PublishOpState(newState, d.isAnyMoving, d.isAnyMoving, AllTrue(d.homed))
       IN  /\ mAxisStatus' = d.status
           /\ mStopCodeChange' = d.change
           /\ mStopCode' = d.stop
           /\ IsHomed' = d.homed
           /\ loopFlags' = [isAnyMoving |-> d.isAnyMoving, isAllMotorOn |-> d.isAllMotorOn,
                            isAllMotorOff |-> d.isAllMotorOff]
           /\ mTimeout' = IF forceOff THEN PowerTimeout ELSE timeout1
           /\ sincePower' = IF forceOff THEN 0
                            ELSE IF sincePower < PowerTimeout THEN sincePower + 1
                            ELSE sincePower
           /\ mSpeed' = IF forceOff THEN dis.speed ELSE mSpeed
           /\ sent' = IF forceOff THEN dis.sent ELSE <<>>
           /\ msgs' = IF forceOff
                      THEN <<"warning: inconsistent motor power (turning off)">> \o dis.msgs
                      ELSE <<>>
           /\ mMotionActive' = d.isAnyMoving
           /\ mMotorPowerOn' = isAllMotorOn
           /\ m_op_state' = pub.state
           /\ events' = pub.events
           /\ HistoryAfter(newState, d.isAnyMoving, AllTrue(d.homed), pub.events)
    /\ op' = [name |-> "RunRecord"]
    /\ pc' = "queue"
    /\ nCmds' = 0
    /\ UNCHANGED <<cfgVars, mState, mHomingMask, sessionLD, fn>>

\* Run with an open connection and GRecord returning an error
RunRecordError ==
    /\ pc = "record"
    /\ mGalil
    /\ LET e == RecordError
           pub == PublishOpState(e.newState, e.busy, e.motionActive, AllTrue(IsHomed))
       IN  /\ m_op_state' = pub.state
           /\ events' = pub.events
           /\ HistoryAfter(e.newState, e.motionActive, AllTrue(IsHomed), pub.events)
           /\ mMotionActive' = e.motionActive
           /\ mMotorPowerOn' = e.motorPowerOn
    /\ sent' = <<>>
    /\ msgs' = <<"error: GRecord error">>
    /\ op' = [name |-> "RunRecordError"]
    /\ pc' = "queue"
    /\ nCmds' = 0
    /\ UNCHANGED <<cfgVars, axisVars, mTimeout, mState, mHomingMask, mSpeed, loopFlags,
                   sessionLD, fn, sincePower>>

\* Run without a connection: the whole record branch is skipped
RunNoConnection ==
    /\ pc = "record"
    /\ ~mGalil
    /\ sent' = <<>>
    /\ msgs' = <<>>
    /\ events' = <<>>
    /\ op' = [name |-> "RunNoConnection"]
    /\ pc' = "queue"
    /\ nCmds' = 0
    /\ UNCHANGED <<cfgVars, axisVars, ctlVars, loopFlags, lastEvent, quietLog, sessionLD, fn,
                   sincePower>>

(***************************************************************************)
(* Requests executed by ProcessQueuedCommands                              *)
(***************************************************************************)
InQueue == pc = "queue" /\ nCmds < MaxCmds

\* a request that leaves Run's own position alone and emits no event
Request(name, arg) ==
    /\ op' = [name |-> name]
    /\ nCmds' = nCmds + 1
    /\ events' = <<>>
    /\ sincePower' = IF name \in {"EnableMotorPower", "DisableMotorPower"} THEN 0
                     ELSE sincePower
    /\ UNCHANGED <<cfgVars, axisVars, pc, loopFlags, lastEvent, quietLog,
                   mMotionActive, mMotorPowerOn, fn>>

\* variant of CheckHomingMask without the test of mState
CheckHomingMaskNoState(cmdName, inMask, outMask) ==
    IF Len(inMask) # Len(outMask)
    THEN [ok |-> FALSE, out |-> outMask,
          msgs |-> <<"error: size mismatch in " \o cmdName>>]
    ELSE LET out == [i \in DOMAIN outMask |-> inMask[i] /\ ~mEncoderAbsolute[i]]
         IN  [ok |-> AnyTrue(out), out |-> out,
              msgs |-> IF AnyTrue(out) THEN <<>>
                       ELSE <<"warning: " \o cmdName \o ": no valid axes">>]

\* variant of CheckHomingMask that keeps the axes with absolute encoders
CheckHomingMaskNoFilter(cmdName, inMask, outMask) ==
    IF Len(inMask) # Len(outMask)
    THEN [ok |-> FALSE, out |-> outMask,
          msgs |-> <<"error: size mismatch in " \o cmdName>>]
    ELSE IF mState = ST_HOMING
    THEN [ok |-> FALSE, out |-> outMask,
          msgs |-> <<"warning: " \o cmdName \o " ignored because robot is homing">>]
    ELSE LET out == [i \in DOMAIN outMask |-> inMask[i]]
         IN  [ok |-> AnyTrue(out), out |-> out,
              msgs |-> IF AnyTrue(out) THEN <<>>
                       ELSE <<"warning: " \o cmdName \o ": no valid axes">>]

\* CheckHomingMask: ok, and outMask as the call leaves it
CheckHomingMask(cmdName, inMask, outMask) ==
    IF Len(inMask) # Len(outMask)
    THEN [ok |-> FALSE, out |-> outMask,
          msgs |-> <<"error: size mismatch in " \o cmdName>>]
    ELSE IF mState = ST_HOMING
    THEN [ok |-> FALSE, out |-> outMask,
          msgs |-> <<"warning: " \o cmdName \o " ignored because robot is homing">>]
    ELSE LET out == [i \in DOMAIN outMask |-> inMask[i] /\ ~mEncoderAbsolute[i]]
         IN  [ok |-> AnyTrue(out), out |-> out,
              msgs |-> IF AnyTrue(out) THEN <<>>
                       ELSE <<"warning: " \o cmdName \o ": no valid axes">>]

\* the body of UnHome called with mask while mHomingMask holds outMask:
\* the mask it leaves, what it sends, and whether it cleared the published
\* fully-homed flag
UnHomeBody(mask, outMask) ==
    LET c == CheckHomingMask("UnHome", mask, outMask)
        zero == [ch \in Channels |-> 0]
    IN  IF ~c.ok
        THEN [out |-> c.out, sent |-> <<>>, msgs |-> c.msgs, cleared |-> FALSE]
        ELSE [out |-> c.out,
              sent |-> IF ModelHasZA
                       THEN SendCommand(WriteCmdValues("ZA ", zero, GetGalilIndexValid(c.out),
                                                       mGalilIndexMax))
                       ELSE <<>>,
              msgs |-> <<>>,
              cleared |-> TRUE]

UnHome(mask) ==
    /\ InQueue
    /\ LET u == UnHomeBody(mask, mHomingMask)
       IN  /\ mHomingMask' = u.out
           /\ sent' = u.sent
           /\ msgs' = u.msgs
           /\ m_op_state' = IF u.cleared THEN [m_op_state EXCEPT !.homed = FALSE]
                            ELSE m_op_state
    /\ Request("UnHome", mask)
    /\ UNCHANGED <<mTimeout, mState, mSpeed, sessionLD>>

\* variant of Home that disables the limits after the homing verb
HomeBodyLimitLate(mask) ==
    LET c == CheckHomingMask("Home", mask, mHomingMask)
        galilAxes == GetGalilAxes(GetGalilIndexValid(c.out))
        u == UnHomeBody(c.out, c.out)
        st == IF mMotionActive THEN SendCommand(WriteCmdAxes("ST ", galilAxes)) ELSE <<>>
        needLD == ModelHasLD /\ AnyNonZero(mHomeLimitDisable)
                  /\ (\E i \in Axes : mHomeLimitDisable[i] # mLimitDisable[i])
        ld == galil_cmd_common_int("home (LD)", "LD ", mHomeLimitDisable)
        rejected(out, m) == [state |-> mState, mask |-> out, sent |-> <<>>, msgs |-> m,
                             cleared |-> FALSE, ldSent |-> FALSE]
    IN  IF ~c.ok THEN rejected(c.out, c.msgs)
        ELSE IF ~mMotorPowerOn THEN rejected(c.out, <<"error: Home: motor power is off">>)
        ELSE IF needLD /\ ~ld.ok
        THEN [state |-> mState, mask |-> u.out, sent |-> u.sent \o st,
              msgs |-> u.msgs \o ld.msgs \o <<"error: Home: failed to disable limits">>,
              cleared |-> u.cleared, ldSent |-> FALSE]
        ELSE [state |-> ST_HOMING, mask |-> u.out,
              sent |-> u.sent \o st
                       \o (IF mHomeCustom
                           THEN SendCommand(WriteCmdAxes("FE ", galilAxes))
                           ELSE SendCommand(WriteCmdAxes("HM ", galilAxes)))
                       \o (IF needLD THEN ld.sent ELSE <<>>)
                       \o SendCommand(WriteCmdAxes("BG ", galilAxes)),
              msgs |-> u.msgs \o (IF mHomeCustom THEN <<"status: starting home (FE)">>
                                  ELSE <<"status: starting home (HM)">>),
              cleared |-> u.cleared, ldSent |-> needLD /\ ld.sent # <<>>]

\* "Check whether limit needs to be disabled"; the variant does not compare
\* the homing limit masks with the register values of Startup
NeedLimitDisableNoCompare == ModelHasLD /\ AnyNonZero(mHomeLimitDisable)

NeedLimitDisable ==
    /\ ModelHasLD
    /\ AnyNonZero(mHomeLimitDisable)
    /\ \E i \in Axes : mHomeLimitDisable[i] # mLimitDisable[i]

\* Home: the record of everything the call does
HomeBody(mask) ==
    LET c == CheckHomingMask("Home", mask, mHomingMask)
        galilAxes == GetGalilAxes(GetGalilIndexValid(c.out))
        u == UnHomeBody(c.out, c.out)
        st == IF mMotionActive THEN SendCommand(WriteCmdAxes("ST ", galilAxes)) ELSE <<>>
        needLD == NeedLimitDisable
        ld == galil_cmd_common_int("home (LD)", "LD ", mHomeLimitDisable)
        rejected(out, m) == [state |-> mState, mask |-> out, sent |-> <<>>, msgs |-> m,
                             cleared |-> FALSE, ldSent |-> FALSE]
    IN  IF ~c.ok THEN rejected(c.out, c.msgs)
        ELSE IF ~mMotorPowerOn THEN rejected(c.out, <<"error: Home: motor power is off">>)
        ELSE IF needLD /\ ~ld.ok
        THEN [state |-> mState, mask |-> u.out, sent |-> u.sent \o st,
              msgs |-> u.msgs \o ld.msgs \o <<"error: Home: failed to disable limits">>,
              cleared |-> u.cleared, ldSent |-> FALSE]
        ELSE [state |-> ST_HOMING, mask |-> u.out,
              sent |-> u.sent \o st \o (IF needLD THEN ld.sent ELSE <<>>)
                       \o (IF mHomeCustom
                           THEN SendCommand(WriteCmdAxes("FE ", galilAxes))
                           ELSE SendCommand(WriteCmdAxes("HM ", galilAxes)))
                       \o SendCommand(WriteCmdAxes("BG ", galilAxes)),
              msgs |-> u.msgs \o (IF mHomeCustom THEN <<"status: starting home (FE)">>
                                  ELSE <<"status: starting home (HM)">>),
              cleared |-> u.cleared, ldSent |-> needLD /\ ld.sent # <<>>]

Home(mask) ==
    /\ InQueue
    /\ LET h == HomeBody(mask)
       IN  /\ mState' = h.state
           /\ mHomingMask' = h.mask
           /\ sent' = h.sent
           /\ msgs' = h.msgs
           /\ m_op_state' = IF h.cleared THEN [m_op_state EXCEPT !.homed = FALSE]
                            ELSE m_op_state
           /\ sessionLD' = IF mState # ST_HOMING /\ h.state = ST_HOMING THEN h.ldSent
                           ELSE sessionLD
    /\ Request("Home", mask)
    /\ UNCHANGED <<mTimeout, mSpeed>>

\* variant of FindEdge / FindIndex without the test of mMotorPowerOn
FindBodyNoPower(cmdName, cmdGalil, mask) ==
    LET c == CheckHomingMask(cmdName, mask, mHomingMask)
        galilAxes == GetGalilAxes(GetGalilIndexValid(c.out))
    IN  IF ~c.ok THEN [mask |-> c.out, sent |-> <<>>, msgs |-> c.msgs]
        ELSE [mask |-> c.out,
              sent |-> (IF mMotionActive THEN SendCommand(WriteCmdAxes("ST ", galilAxes))
                        ELSE <<>>)
                       \o SendCommand(WriteCmdAxes(cmdGalil, galilAxes))
                       \o SendCommand(WriteCmdAxes("BG ", galilAxes)),
              msgs |-> <<>>]

\* FindEdge (cmdGalil "FE ") and FindIndex (cmdGalil "FI ")
FindBody(cmdName, cmdGalil, mask) ==
    LET c == CheckHomingMask(cmdName, mask, mHomingMask)
        galilAxes == GetGalilAxes(GetGalilIndexValid(c.out))
    IN  IF ~c.ok THEN [mask |-> c.out, sent |-> <<>>, msgs |-> c.msgs]
        ELSE IF ~mMotorPowerOn
        THEN [mask |-> c.out, sent |-> <<>>,
              msgs |-> <<"error: " \o cmdName \o ": motor power is off">>]
        ELSE [mask |-> c.out,
              sent |-> (IF mMotionActive THEN SendCommand(WriteCmdAxes("ST ", galilAxes))
                        ELSE <<>>)
                       \o SendCommand(WriteCmdAxes(cmdGalil, galilAxes))
                       \o SendCommand(WriteCmdAxes("BG ", galilAxes)),
              msgs |-> <<>>]

FindEdge(mask) ==
    /\ InQueue
    /\ LET f == FindBody("FindEdge", "FE ", mask)
       IN  /\ mHomingMask' = f.mask
           /\ sent' = f.sent
           /\ msgs' = f.msgs
    /\ Request("FindEdge", mask)
    /\ UNCHANGED <<mTimeout, mState, m_op_state, mSpeed, sessionLD>>

FindIndex(mask) ==
    /\ InQueue
    /\ LET f == FindBody("FindIndex", "FI ", mask)
       IN  /\ mHomingMask' = f.mask
           /\ sent' = f.sent
           /\ msgs' = f.msgs
    /\ Request("FindIndex", mask)
    /\ UNCHANGED <<mTimeout, mState, m_op_state, mSpeed, sessionLD>>

\* variant of servo_jp / servo_jr that does not stop the motion in progress
ServoBodyNoStop(cmdName, cmdGalil, goal, useOffset) ==
    IF ~mMotorPowerOn
    THEN [sent |-> <<>>, msgs |-> <<"error: " \o cmdName \o ": motor power is off">>]
    ELSE LET r == galil_cmd_common(cmdName, cmdGalil, goal, useOffset)
         IN  [sent |-> r.sent
                       \o (IF r.ok THEN SendCommand(WriteCmdAxes("BG ", mGalilAxes))
                           ELSE <<>>),
              msgs |-> r.msgs]

\* servo_jp (cmdGalil "PA ", useOffset) and servo_jr (cmdGalil "PR ")
ServoBody(cmdName, cmdGalil, goal, useOffset) ==
    IF ~mMotorPowerOn
    THEN [sent |-> <<>>, msgs |-> <<"error: " \o cmdName \o ": motor power is off">>]
    ELSE LET st == IF mMotionActive THEN SendCommand(WriteCmdAxes("ST ", mGalilAxes))
                   ELSE <<>>
             r == galil_cmd_common(cmdName, cmdGalil, goal, useOffset)
         IN  [sent |-> st \o r.sent
                       \o (IF r.ok THEN SendCommand(WriteCmdAxes("BG ", mGalilAxes))
                           ELSE <<>>),
              msgs |-> r.msgs]

servo_jp(goal) ==
    /\ InQueue
    /\ LET r == ServoBody("servo_jp", "PA ", goal, TRUE)
       IN  sent' = r.sent /\ msgs' = r.msgs
    /\ Request("servo_jp", goal)
    /\ UNCHANGED <<mTimeout, mState, mHomingMask, m_op_state, mSpeed, sessionLD>>

servo_jr(goal) ==
    /\ InQueue
    /\ LET r == ServoBody("servo_jr", "PR ", goal, FALSE)
       IN  sent' = r.sent /\ msgs' = r.msgs
    /\ Request("servo_jr", goal)
    /\ UNCHANGED <<mTimeout, mState, mHomingMask, m_op_state, mSpeed, sessionLD>>

servo_jv(goal) ==
    /\ InQueue
    /\ LET r == galil_cmd_common("servo_jv", "JG ", goal, FALSE)
       IN  IF ~mMotorPowerOn
           THEN sent' = <<>> /\ msgs' = <<"error: servo_jv: motor power is off">>
           ELSE /\ sent' = r.sent \o (IF r.ok THEN SendCommand(WriteCmdAxes("BG ", mGalilAxes))
                                      ELSE <<>>)
                /\ msgs' = r.msgs
    /\ Request("servo_jv", goal)
    /\ UNCHANGED <<mTimeout, mState, mHomingMask, m_op_state, mSpeed, sessionLD>>

hold ==
    /\ InQueue
    /\ LET sp == SetSpeed(mSpeed)
       IN  IF ~mMotorPowerOn
           THEN sent' = <<>> /\ msgs' = <<"error: hold: motor power is off">>
                /\ mSpeed' = mSpeed
           ELSE /\ sent' = SendCommand(WriteCmdAxes("ST ", mGalilAxes)) \o sp.sent
                /\ msgs' = sp.msgs
                /\ mSpeed' = sp.speed
    /\ Request("hold", <<>>)
    /\ UNCHANGED <<mTimeout, mState, mHomingMask, m_op_state, sessionLD>>

EnableMotorPower ==
    /\ InQueue
    /\ sent' = SendCommand(WriteCmdAxes("SH ", mGalilAxes))
    /\ msgs' = <<>>
    /\ mTimeout' = PowerTimeout
    /\ Request("EnableMotorPower", <<>>)
    /\ UNCHANGED <<mState, mHomingMask, m_op_state, mSpeed, sessionLD>>

DisableMotorPower ==
    /\ InQueue
    /\ LET dis == DisableMotorPowerCmds
       IN  sent' = dis.sent /\ msgs' = dis.msgs /\ mSpeed' = dis.speed
    /\ mTimeout' = PowerTimeout
    /\ Request("DisableMotorPower", <<>>)
    /\ UNCHANGED <<mState, mHomingMask, m_op_state, sessionLD>>

(***************************************************************************)
(* Run(): the homing state machine after ProcessQueuedCommands             *)
(***************************************************************************)
\* the home position of axis i in encoder counts; the variant leaves out
\* the encoder offset
HomePosCountsNoOffset(i) == RoundDiv(mHomePos[i] * mEncoderCountsPerUnit[i], 1000)

HomePosCounts(i) ==
    RoundDiv(mHomePos[i] * mEncoderCountsPerUnit[i], 1000) + mEncoderOffset[i]

\* the last branch of the loop: another stop code than running, on change;
\* one variant does not look at the change flag, the other not at the code
AbortAxisUnchanged(i) == mStopCode[i] # SC_Running

AbortAxisAnyCode(i) == mStopCodeChange[i]

AbortAxis(i) == mStopCode[i] # SC_Running /\ mStopCodeChange[i]

\* the first branch of the loop: the edge was found or, under the custom
\* sequence, a limit was reached; the variant treats a limit like the edge
\* under both strategies
FoundEdgeOrLimitAnyStrategy(i) ==
    (mStopCode[i] = SC_FindEdge) \/ (mStopCode[i] = SC_FwdLim \/ mStopCode[i] = SC_RevLim)

FoundEdgeOrLimit(i) ==
    (mStopCode[i] = SC_FindEdge)
    \/ (mHomeCustom /\ (mStopCode[i] = SC_FwdLim \/ mStopCode[i] = SC_RevLim))

\* the commands of the custom sequence after the edge or a limit was found
\* on channel galilChan; the variant begins the motion before FI is issued
FindIndexChainBeginFirst(galilChan) ==
    SendCommand("AM " \o galilChan)
    \o SendCommand("JG" \o galilChan \o "=" \o StrOf(IntChars(FindIndexSpeed)))
    \o SendCommand("BG " \o galilChan)
    \o SendCommand("FI " \o galilChan)

FindIndexChain(galilChan) ==
    SendCommand("AM " \o galilChan)
    \o SendCommand("JG" \o galilChan \o "=" \o StrOf(IntChars(FindIndexSpeed)))
    \o SendCommand("FI " \o galilChan)
    \o SendCommand("BG " \o galilChan)

\* the loop over the axes in case ST_HOMING, from axis i on; acc holds
\* mHomingMask, IsHomed and what was sent and reported so far
RECURSIVE HomingLoop(_, _)
HomingLoop(i, acc) ==
    IF i > mNumAxes THEN acc
    ELSE IF ~acc.mask[i] THEN HomingLoop(i + 1, acc)
    ELSE LET galilChan == ChanLetter(mAxisToGalilIndexMap[i])
             axisNum == StrOf(IntChars(i - 1))
         IN
         IF FoundEdgeOrLimit(i)
         THEN IF mStopCodeChange[i]
              THEN HomingLoop(i + 1,
                     [acc EXCEPT
                        !.msgs = @ \o <<IF mStopCode[i] = SC_FwdLim
                                        THEN "status: found forward limit on axis " \o axisNum
                                        ELSE IF mStopCode[i] = SC_RevLim
                                        THEN "status: found reverse limit on axis " \o axisNum
                                        ELSE "status: found homing edge on axis " \o axisNum>>,
                        !.sent = IF mHomeCustom THEN @ \o FindIndexChain(galilChan)
                                 ELSE @])
              ELSE HomingLoop(i + 1, acc)
         ELSE IF mStopCode[i] = SC_Homing
         THEN LET hpos == HomePosCounts(i)
                  sp == SetSpeed(mSpeed)
              IN  HomingLoop(i + 1,
                     [mask  |-> [acc.mask EXCEPT ![i] = FALSE],
                      homed |-> [acc.homed EXCEPT ![i] = TRUE],
                      sent  |-> acc.sent \o SendCommand("AM " \o galilChan)
                                \o SendCommand("DP" \o galilChan \o "=" \o StrOf(IntChars(hpos)))
                                \o sp.sent,
                      msgs  |-> acc.msgs \o sp.msgs
                                \o <<"status: finished homing on axis " \o axisNum>>])
         ELSE IF AbortAxis(i)
         THEN HomingLoop(i + 1,
                 [acc EXCEPT
                    !.msgs = @ \o <<"status: found stop code "
                                    \o StrOf(IntChars(mStopCode[i]))
                                    \o " when homing axis " \o axisNum>>,
                    !.mask = [@ EXCEPT ![i] = FALSE]])
         ELSE HomingLoop(i + 1, acc)

\* "Now, check if all axes are homed"; the variant looks at the first axis
HomingDoneFirstAxis(mask) == ~mask[1]

HomingDone(mask) == ~AnyTrue(mask)

\* the switch (mState) at the end of Run; ends the cycle
RunSwitch ==
    /\ pc = "queue"
    /\ IF mState = ST_HOMING
       THEN \E h \in {HomingLoop(1, [mask |-> mHomingMask, homed |-> IsHomed,
                                      sent |-> <<>>, msgs |-> <<>>])} :
            LET done == HomingDone(h.mask)
                ld == galil_cmd_common_int("home (LD-restore)", "LD ", mLimitDisable)
            IN  /\ mHomingMask' = h.mask
                /\ IsHomed' = h.homed
                /\ sent' = h.sent \o (IF done /\ ModelHasLD THEN ld.sent ELSE <<>>)
                /\ msgs' = h.msgs
                           \o (IF done /\ ModelHasLD
                               THEN ld.msgs \o (IF ld.ok THEN <<>>
                                                ELSE <<"error: Home: failed to restore limits">>)
                               ELSE <<>>)
                           \o (IF done THEN <<"status: finished homing all axes">> ELSE <<>>)
                /\ mState' = IF done THEN ST_IDLE ELSE mState
                /\ sessionLD' = IF done THEN FALSE ELSE sessionLD
       ELSE /\ sent' = <<>>
            /\ msgs' = <<>>
            /\ UNCHANGED <<mHomingMask, IsHomed, mState, sessionLD>>
    /\ op' = [name |-> "RunSwitch"]
    /\ events' = <<>>
    /\ pc' = "record"
    /\ nCmds' = 0
    /\ UNCHANGED <<cfgVars, mAxisStatus, mStopCode, mStopCodeChange, mMotionActive,
                   mMotorPowerOn, mTimeout, m_op_state, mSpeed, loopFlags, lastEvent,
                   quietLog, fn, sincePower>>

(***************************************************************************)
(* Inputs                                                                  *)
(***************************************************************************)
\* stop codes the controller reports in the model
StopCodes == {SC_Running, SC_Stopped, SC_FwdLim, SC_FindEdge, SC_Homing}

StatusWords == {0, StatusMotorOff, StatusMotorMoving, StatusMotorMoving + StatusMotorOff}

\* the axis data at a channel no axis is configured on
IdleAxisData == [status |-> 0, stop_code |-> SC_Running, var |-> 0]

\* the user variable is part of the axis data only in the AxisDataMax layout
UserVars == IF ModelAxisDataSize = ADmax THEN {0, 1} ELSE {0}

\* the data record seen through the axis map: per-axis data placed at the
\* axes' channels
RecordOf(axisData) ==
    [ch \in Channels |->
        IF \E i \in Axes : mAxisToGalilIndexMap[i] = ch
        THEN axisData[CHOOSE i \in Axes : mAxisToGalilIndexMap[i] = ch]
        ELSE IdleAxisData]

\* an axis with an absolute encoder is never homed (CheckHomingMask), so
\* its stop code and user variable are never read by the homing machine
StopCodesOf(i) == IF mEncoderAbsolute[i] THEN {SC_Running} ELSE StopCodes
UserVarsOf(i) == IF mEncoderAbsolute[i] THEN {0} ELSE UserVars

AxisStopCodes == {sc \in [Axes -> StopCodes] : \A i \in Axes : sc[i] \in StopCodesOf(i)}
AxisUserVars == {uv \in [Axes -> {0, 1}] : \A i \in Axes : uv[i] \in UserVarsOf(i)}

\* data records in which all axes report the same status word
UniformRecords ==
    { RecordOf([i \in Axes |-> [status |-> w, stop_code |-> sc[i], var |-> uv[i]]]) :
        w \in StatusWords, sc \in AxisStopCodes, uv \in AxisUserVars }

\* boolean masks of the right size, and one that is too long
MaskInputs ==
    [Axes -> BOOLEAN] \cup {[i \in 1..(mNumAxes + 1) |-> TRUE]}

\* goal vectors (thousandths) of the right size, and one that is too long
GoalInputs ==
    {[i \in 1..n |-> 10 * i] : n \in {mNumAxes, mNumAxes + 1}}

(***************************************************************************)
(* Specification: homing and motion requests with consistent motor power   *)
(***************************************************************************)
Init ==
    /\ \E c \in Configurations, startup \in StartupOutcomes : InitConfig(c, startup)
    \* SetSize leaves mStopCode uninitialized
    /\ mStopCode \in AxisStopCodes
    /\ InitRest

Next ==
    \/ \E gRec \in UniformRecords : RunRecord(gRec)
    \/ RunRecordError
    \/ RunNoConnection
    \/ \E mask \in MaskInputs : Home(mask)
    \/ \E mask \in MaskInputs : UnHome(mask)
    \/ \E mask \in MaskInputs : FindEdge(mask)
    \/ \E mask \in MaskInputs : FindIndex(mask)
    \/ \E goal \in GoalInputs : servo_jp(goal)
    \/ \E goal \in GoalInputs : servo_jr(goal)
    \/ \E goal \in GoalInputs : servo_jv(goal)
    \/ hold
    \/ RunSwitch

Spec == Init /\ [][Next]_vars

(***************************************************************************)
(* Specification: motor power.  Two axes with absolute encoders report     *)
(* arbitrary per-axis status words; power is switched by requests.         *)
(***************************************************************************)
PowerConfigurations ==
    { \* DMC-1802, channels B and D
      [model |-> 1802, index |-> <<1, 3>>, is_absolute |-> <<TRUE, TRUE>>,
       home_pos |-> <<50, 50>>, lower |-> <<0, 0>>, upper |-> <<100, 100>>,
       scale |-> <<1000, 1000>>, offset |-> <<0, 0>>, ld |-> <<0, 0>>] }

\* data records with any status word per axis and no axis stopped
PowerRecords ==
    { RecordOf([i \in Axes |-> [status |-> w[i], stop_code |-> SC_Running, var |-> 0]]) :
        w \in [Axes -> StatusWords] }

InitPower ==
    /\ \E c \in PowerConfigurations : InitConfig(c, "ok")
    /\ mStopCode = [i \in 1..mNumAxes |-> SC_Running]
    /\ InitRest

NextPower ==
    \/ \E gRec \in PowerRecords : RunRecord(gRec)
    \/ RunRecordError
    \/ EnableMotorPower
    \/ DisableMotorPower
    \/ RunSwitch

SpecPower == InitPower /\ [][NextPower]_vars

(***************************************************************************)
(* Specification: homing sessions of two incremental axes.  Motor power    *)
(* stays on, the axes report independent stop codes, and Home is the only  *)
(* request.                                                                *)
(***************************************************************************)
HomingConfigurations ==
    { \* DMC-2103 (no LD), channels A and C; axis 1 homes at its lower limit,
      \* axis 2 in mid-range
      [model |-> 2103, index |-> <<0, 2>>, is_absolute |-> <<FALSE, FALSE>>,
       home_pos |-> <<0, 50>>, lower |-> <<0, 0>>, upper |-> <<100, 100>>,
       scale |-> <<2000, 1010>>, offset |-> <<-7, 3>>, ld |-> <<0, 0>>],
      \* DMC-1802 (no LD), channels B and A, both axes home in mid-range
      [model |-> 1802, index |-> <<1, 0>>, is_absolute |-> <<FALSE, FALSE>>,
       home_pos |-> <<50, 20>>, lower |-> <<0, 0>>, upper |-> <<100, 100>>,
       scale |-> <<1000, 1000>>, offset |-> <<0, 4>>, ld |-> <<0, 0>>],
      \* DMC-1806 (LD), channels A and C; axis 1 homes at its upper limit
      [model |-> 1806, index |-> <<0, 2>>, is_absolute |-> <<FALSE, FALSE>>,
       home_pos |-> <<100, 50>>, lower |-> <<0, 0>>, upper |-> <<100, 100>>,
       scale |-> <<1000, 1000>>, offset |-> <<0, 0>>, ld |-> <<0, 0>>] }

\* data records with all motors on and at rest and any stop code per axis
HomingRecords ==
    { RecordOf([i \in Axes |-> [status |-> 0, stop_code |-> sc[i], var |-> 0]]) :
        sc \in [Axes -> StopCodes] }

InitHoming ==
    /\ \E c \in HomingConfigurations : InitConfig(c, "ok")
    /\ mStopCode \in [1..mNumAxes -> StopCodes]
    /\ InitRest

NextHoming ==
    \/ \E gRec \in HomingRecords : RunRecord(gRec)
    \/ \E mask \in [Axes -> BOOLEAN] : Home(mask)
    \/ RunSwitch

SpecHoming == InitHoming /\ [][NextHoming]_vars

(***************************************************************************)
(* Specification: the axis map.  Configure is given any assignment of up   *)
(* to MaxAxes axes to the channels below MaxChannel (it does not compare   *)
(* the channels of different axes), and the validity mask and the letters  *)
(* of any subset of the axes are computed.                                 *)
(***************************************************************************)
MaxAxes == 3
MaxChannel == 4

\* configurations with any channel for every axis
AxisMapConfigurations ==
    { [model |-> 4000, index |-> idx, is_absolute |-> [a \in DOMAIN idx |-> FALSE],
       home_pos |-> [a \in DOMAIN idx |-> 50], lower |-> [a \in DOMAIN idx |-> 0],
       upper |-> [a \in DOMAIN idx |-> 100], scale |-> [a \in DOMAIN idx |-> 1000],
       offset |-> [a \in DOMAIN idx |-> 0], ld |-> [a \in DOMAIN idx |-> 0]] :
        idx \in UNION {[1..k -> 0..(MaxChannel - 1)] : k \in 1..MaxAxes} }

InitAxisMap ==
    /\ \E c \in AxisMapConfigurations : InitConfig(c, "ok")
    /\ mStopCode = [i \in 1..mNumAxes |-> SC_Running]
    /\ InitRest

\* GetGalilAxes(GetGalilIndexValid(mask)) for a subset of the axes
SelectAxes(mask) ==
    /\ LET galilIndexValid == GetGalilIndexValid(mask)
       IN  fn' = [name |-> "GetGalilAxes", mask |-> mask,
                  galilIndexValid |-> galilIndexValid,
                  galilAxes |-> GetGalilAxes(galilIndexValid)]
    /\ UNCHANGED <<cfgVars, axisVars, ctlVars, pc, nCmds, op, sent, msgs, events,
                   loopFlags, lastEvent, quietLog, sessionLD, sincePower>>

NextAxisMap == \E mask \in [Axes -> BOOLEAN] : SelectAxes(mask)

SpecAxisMap == InitAxisMap /\ [][NextAxisMap]_vars

(***************************************************************************)
(* Specification: WriteCmdValues on its own, for every number of channels  *)
(* up to MaxFields, every validity mask and values from FieldValues        *)
(***************************************************************************)
MaxFields == 4
FieldValues == {0, 10, 20, 30, -500}

InitValues ==
    /\ \E c \in PowerConfigurations : InitConfig(c, "ok")
    /\ mStopCode = [i \in 1..mNumAxes |-> SC_Running]
    /\ InitRest

\* WriteCmdValues(mBuffer, cmd, data, valid, num), applied once to the
\* inputs of a behaviour; data of a channel that is not valid is never read
FormatValues(cmd, data, valid, num) ==
    /\ fn.name = "none"
    /\ fn' = [name |-> "WriteCmdValues", cmd |-> cmd, data |-> data, valid |-> valid,
              num |-> num, out |-> WriteCmdValues(cmd, data, valid, num)]
    /\ UNCHANGED <<cfgVars, axisVars, ctlVars, pc, nCmds, op, sent, msgs, events,
                   loopFlags, lastEvent, quietLog, sessionLD, sincePower>>

NextValues ==
    \E num \in 1..MaxFields, cmd \in {"PA ", "ZA "} :
       \E valid \in [0..(num - 1) -> BOOLEAN] :
          \E data \in {d \in [0..(num - 1) -> FieldValues] :
                          \A ch \in 0..(num - 1) : ~valid[ch] => d[ch] = 0} :
             FormatValues(cmd, data, valid, num)

SpecValues == InitValues /\ [][NextValues]_vars

(***************************************************************************)
(* Specification: the data record as a frame of bytes.  One incremental    *)
(* axis on channel B of each of the six models; GRecord delivers a frame   *)
(* of some length into the local gRec, and Run reads the axis data at the  *)
(* model's offsets whatever that length is.                                *)
(***************************************************************************)
FrameConfigurations ==
    { [model |-> ModelTypes[m], index |-> <<1>>, is_absolute |-> <<FALSE>>,
       home_pos |-> <<50>>, lower |-> <<0>>, upper |-> <<100>>,
       scale |-> <<1000>>, offset |-> <<0>>, ld |-> <<0>>] : m \in 1..NUM_MODELS }

\* first and last byte of the fields Run reads, inside the packed axis data
AxisDataFields == [status |-> <<0, 1>>, stop_code |-> <<3, 3>>, var |-> <<32, 35>>]

\* the bytes of field f of channel ch lie inside the first len bytes
FieldReceived(len, ch, f) ==
    AxisDataOffset[mModel + 1] + ch * ModelAxisDataSize + AxisDataFields[f][2] < len

\* the end of the axis data of the highest configured channel
FrameEnd == AxisDataOffset[mModel + 1] + mGalilIndexMax * ModelAxisDataSize

\* the frames delivered in the model: complete, and one byte short
FrameLengths == {FrameEnd - 1, FrameEnd}

\* what the reinterpret_casts of Run read from a frame of len bytes that
\* carries gRec: a field that was received has its value, a field beyond
\* the received bytes is read from the uninitialized local and has any value
ReadField(len, gRec, f, values) ==
    { x \in [Channels -> values] :
        \A ch \in Channels : FieldReceived(len, ch, f) => x[ch] = gRec[ch][f] }

ReadFrame(len, gRec) ==
    { [ch \in Channels |-> [status |-> st[ch], stop_code |-> sc[ch], var |-> uv[ch]]] :
        st \in ReadField(len, gRec, "status", StatusWords),
        sc \in ReadField(len, gRec, "stop_code", StopCodes),
        uv \in ReadField(len, gRec, "var", UserVars) }

\* Run with GRecord returning G_NO_ERROR and a frame of len bytes: the
\* length is not looked at
RunFrame(len, gRec) == \E r \in ReadFrame(len, gRec) : RunRecord(r)

InitFrame ==
    /\ \E c \in FrameConfigurations : InitConfig(c, "ok")
    /\ mStopCode \in [1..mNumAxes -> StopCodes]
    /\ InitRest

NextFrame ==
    \/ \E len \in FrameLengths, gRec \in UniformRecords : RunFrame(len, gRec)
    \/ RunRecordError
    \/ RunSwitch

SpecFrame == InitFrame /\ [][NextFrame]_vars

(***************************************************************************)
(* Specification: the homed flags.  Two incremental axes on channels B and *)
(* A of each of the six models, motor power on and the axes at rest; the   *)
(* records carry any stop code and, where the layout has it, any user      *)
(* variable; the requests are Home and UnHome.                             *)
(***************************************************************************)
HomedConfigurations ==
    { [model |-> ModelTypes[m], index |-> <<1, 0>>, is_absolute |-> <<FALSE, FALSE>>,
       home_pos |-> <<50, 20>>, lower |-> <<0, 0>>, upper |-> <<100, 100>>,
       scale |-> <<1000, 1000>>, offset |-> <<0, 4>>, ld |-> <<0, 0>>] :
        m \in 1..NUM_MODELS }

HomedRecords ==
    { RecordOf([i \in Axes |-> [status |-> 0, stop_code |-> sc[i], var |-> uv[i]]]) :
        sc \in [Axes -> {SC_Running, SC_Stopped, SC_Homing}], uv \in [Axes -> UserVars] }

InitHomed ==
    /\ \E c \in HomedConfigurations : InitConfig(c, "ok")
    /\ mStopCode = [i \in 1..mNumAxes |-> SC_Running]
    /\ InitRest

NextHomed ==
    \/ \E gRec \in HomedRecords : RunRecord(gRec)
    \/ \E mask \in [Axes -> BOOLEAN] : Home(mask)
    \/ \E mask \in [Axes -> BOOLEAN] : UnHome(mask)
    \/ RunSwitch

SpecHomed == InitHomed /\ [][NextHomed]_vars

(***************************************************************************)
(* Specification: the homing machine under both strategies.  Two           *)
(* incremental axes on the DMC-2103 (custom sequence) and on the DMC-1806  *)
(* (HM with the limit disabled); the records carry any stop code per axis, *)
(* reading the record may fail, and Home is the only request.              *)
(***************************************************************************)
ChainConfigurations == {c \in HomingConfigurations : c.model \in {2103, 1806}}

ChainStopCodes == {SC_Running, SC_FwdLim, SC_RevLim, SC_FindEdge, SC_Homing}

ChainRecords ==
    { RecordOf([i \in Axes |-> [status |-> 0, stop_code |-> sc[i], var |-> 0]]) :
        sc \in [Axes -> ChainStopCodes] }

InitChain ==
    /\ \E c \in ChainConfigurations : InitConfig(c, "ok")
    /\ mStopCode \in [1..mNumAxes -> ChainStopCodes]
    /\ InitRest

NextChain ==
    \/ \E gRec \in ChainRecords : RunRecord(gRec)
    \/ RunRecordError
    \/ \E mask \in [Axes -> BOOLEAN] : Home(mask)
    \/ RunSwitch

SpecChain == InitChain /\ [][NextChain]_vars

(***************************************************************************)
(* Specification: homing sessions with ticks that keep occurring.  As      *)
(* SpecHoming, and reading the record may fail.  Run is a periodic task:   *)
(* the record phase and the switch of every cycle are eventually executed. *)
(* The controller eventually reports the homing-complete stop code for an  *)
(* axis that stays pending.                                                *)
(***************************************************************************)
LiveConfigurations == {c \in HomingConfigurations : c.model \in {2103, 1806}}

\* the stop codes reported in this specification
LiveStopCodes == {SC_Running, SC_Stopped, SC_Homing}

LiveRecords ==
    { RecordOf([i \in Axes |-> [status |-> 0, stop_code |-> sc[i], var |-> 0]]) :
        sc \in [Axes -> LiveStopCodes] }

InitLive ==
    /\ \E c \in LiveConfigurations : InitConfig(c, "ok")
    /\ mStopCode \in [1..mNumAxes -> LiveStopCodes]
    /\ InitRest

\* the record phase of a cycle
TickRecord ==
    \/ \E gRec \in LiveRecords : RunRecord(gRec)
    \/ RunRecordError

\* a record that is read while axis i is pending and carries the
\* homing-complete stop code for its channel
ReportsComplete(i) ==
    /\ i \in Axes
    /\ pc = "record"
    /\ mState = ST_HOMING /\ mHomingMask[i]
    /\ TickRecord
    /\ op'.name = "RunRecord"
    /\ mStopCode'[i] = SC_Homing

NextLive ==
    \/ TickRecord
    \/ \E mask \in [Axes -> BOOLEAN] : Home(mask)
    \/ RunSwitch

SpecLive ==
    /\ InitLive /\ [][NextLive]_vars
    /\ WF_vars(TickRecord) /\ WF_vars(RunSwitch)
    /\ \A i \in 1..2 : SF_vars(ReportsComplete(i))

(***************************************************************************)
(* Specification: the values commands built from a per-axis vector.        *)
(* Configure is given any assignment of up to MaxAxes axes to the channels *)
(* below MaxChannel, and galil_cmd_common is applied once to a vector of   *)
(* pairwise different values, with the verbs of its callers.               *)
(***************************************************************************)
\* configurations with any channel for every axis and per-axis scales and
\* offsets
AxisValuesConfigurations ==
    { [model |-> 4000, index |-> idx, is_absolute |-> [a \in DOMAIN idx |-> FALSE],
       home_pos |-> [a \in DOMAIN idx |-> 50], lower |-> [a \in DOMAIN idx |-> 0],
       upper |-> [a \in DOMAIN idx |-> 100], scale |-> [a \in DOMAIN idx |-> 1000 * a],
       offset |-> [a \in DOMAIN idx |-> 3 * a], ld |-> [a \in DOMAIN idx |-> 0]] :
        idx \in UNION {[1..k -> 0..(MaxChannel - 1)] : k \in 1..MaxAxes} }

\* the verbs sent through galil_cmd_common (vctDoubleVec) and whether the
\* caller asks for the encoder offset
DoubleVerbs ==
    { <<"SetSpeed", "SP ", FALSE>>, <<"SetAccel", "AC ", FALSE>>, <<"SetDecel", "DC ", FALSE>>,
      <<"servo_jp", "PA ", TRUE>>, <<"servo_jr", "PR ", FALSE>>, <<"servo_jv", "JG ", FALSE>>,
      <<"SetHomePosition", "DP ", TRUE>> }

\* per-axis vectors (thousandths of a unit) with pairwise different entries
AxisVectors == { [i \in Axes |-> 10 * i], [i \in Axes |-> 7 - 20 * i] }

\* per-axis integer vectors (limit-disable register values)
AxisIntVectors == { [i \in Axes |-> i], [i \in Axes |-> 3 - ((i - 1) % 3)] }

InitAxisValues ==
    /\ \E c \in AxisValuesConfigurations : InitConfig(c, "ok")
    /\ mStopCode = [i \in 1..mNumAxes |-> SC_Running]
    /\ InitRest

\* galil_cmd_common(cmdName, cmdGalil, data, useOffset) on its own
ValuesCommand(cmdName, cmdGalil, data, useOffset) ==
    /\ fn.name = "none"
    /\ fn' = [name |-> "galil_cmd_common", cmd |-> cmdGalil, data |-> data,
              useOffset |-> useOffset, scaled |-> TRUE,
              out |-> galil_cmd_common(cmdName, cmdGalil, data, useOffset).sent]
    /\ UNCHANGED <<cfgVars, axisVars, ctlVars, pc, nCmds, op, sent, msgs, events,
                   loopFlags, lastEvent, quietLog, sessionLD, sincePower>>

\* galil_cmd_common("home (LD)", "LD ", data) on its own
ValuesCommandInt(data) ==
    /\ fn.name = "none"
    /\ fn' = [name |-> "galil_cmd_common", cmd |-> "LD ", data |-> data,
              useOffset |-> FALSE, scaled |-> FALSE,
              out |-> galil_cmd_common_int("home (LD)", "LD ", data).sent]
    /\ UNCHANGED <<cfgVars, axisVars, ctlVars, pc, nCmds, op, sent, msgs, events,
                   loopFlags, lastEvent, quietLog, sessionLD, sincePower>>

NextAxisValues ==
    \/ \E v \in DoubleVerbs, data \in AxisVectors : ValuesCommand(v[1], v[2], data, v[3])
    \/ \E data \in AxisIntVectors : ValuesCommandInt(data)

SpecAxisValues == InitAxisValues /\ [][NextAxisValues]_vars

(***************************************************************************)
(* Specification: the limit-disable register around a homing session.  Two *)
(* incremental axes on channels C and A of the DMC-1806 (LD) and of the    *)
(* DMC-2103 (no LD), with home positions at and between the limits and     *)
(* any answer of the controller to the LD query of Startup.  Motor power   *)
(* stays on.                                                               *)
(***************************************************************************)
LimitHomePositions == {<<50, 50>>, <<0, 50>>, <<100, 0>>}
LimitRegisters == {<<0, 0>>, <<2, 0>>, <<1, 2>>, <<3, 1>>}

LimitConfigurations ==
    { [model |-> m, index |-> <<2, 0>>, is_absolute |-> <<FALSE, FALSE>>,
       home_pos |-> hp, lower |-> <<0, 0>>, upper |-> <<100, 100>>,
       scale |-> <<1000, 1000>>, offset |-> <<0, 0>>, ld |-> reg] :
        m \in {1806, 2103}, hp \in LimitHomePositions, reg \in LimitRegisters }

\* data records with all motors on and at rest, the axes running or done
LimitRecords ==
    { RecordOf([i \in Axes |-> [status |-> 0, stop_code |-> sc[i], var |-> 0]]) :
        sc \in [Axes -> {SC_Running, SC_Homing}] }

InitLimit ==
    /\ \E c \in LimitConfigurations : InitConfig(c, "ok")
    /\ mStopCode = [i \in 1..mNumAxes |-> SC_Running]
    /\ InitRest

NextLimit ==
    \/ \E gRec \in LimitRecords : RunRecord(gRec)
    \/ \E mask \in [Axes -> BOOLEAN] : Home(mask)
    \/ \E mask \in [Axes -> BOOLEAN] : FindEdge(mask)
    \/ RunSwitch

SpecLimit == InitLimit /\ [][NextLimit]_vars

(***************************************************************************)
(* Properties                                                              *)
(***************************************************************************)
\* a step is the record phase of a Run() cycle with an open connection
TickStep == op'.name \in {"RunRecord", "RunRecordError"}

\* the axes of a request mask that survive the absolute-encoder filter
Filtered(mask) == [i \in 1..Len(mask) |-> mask[i] /\ ~mEncoderAbsolute[i]]

\* C1: a Home request processed while the state is Homing is rejected: the
\* pending homing mask is unchanged, the state stays Homing and no command
\* is sent to the controller.
C1_HomeWhileHomingRejected ==
    [][\A mask \in MaskInputs :
          (Home(mask) /\ mState = ST_HOMING) =>
              /\ mHomingMask' = mHomingMask
              /\ mState' = ST_HOMING
              /\ sent' = <<>>]_vars

\* C1 case: a right-sized Home request was just refused because homing is
\* in progress
C1_Witness ==
    /\ op.name = "Home"
    /\ mState = ST_HOMING
    /\ AnyTrue(mHomingMask)
    /\ msgs = <<"warning: Home ignored because robot is homing">>

\* C2 as stated: every operating-state event that is emitted differs from
\* the event emitted before it (state, busy or fully-homed differs),
\* whatever requests were processed in between.
C2_EventsDifferFromPrevious ==
    [][\A k \in 1..Len(events') :
          events'[k] # (IF k = 1 THEN lastEvent ELSE events'[k - 1])]_vars

\* C3: a cycle emits an event whenever the state it computes differs from
\* the published state, and none when state, busy and fully-homed all stay
\* as published; so of three cycles computing Disabled, Disabled, Enabled
\* with busy and fully-homed constant, only the third emits, exactly once.
C3_EventOnlyOnChange ==
    [][TickStep =>
          /\ (m_op_state'.state # m_op_state.state => Len(events') = 1)
          /\ (m_op_state' = m_op_state => events' = <<>>)
          /\ (Len(quietLog') = 3 => quietLog' = <<0, 0, 1>>)]_vars

\* C3 case: two cycles computed Disabled without an event and the third
\* computed Enabled and emitted it
C3_Witness ==
    /\ op.name = "RunRecord"
    /\ Len(quietLog) = 3
    /\ events = <<[state |-> ENABLED_, busy |-> m_op_state.busy, homed |-> m_op_state.homed]>>

\* C4: after a successful cycle, anyMoving is true iff some axis has the
\* motor-moving bit, allMotorOn iff no axis has the motor-off bit,
\* allMotorOff iff every axis has it; the last two are never both true.
C4_PowerAggregates ==
    (op.name = "RunRecord") =>
        /\ loopFlags.isAnyMoving = (\E i \in Axes : BitSet(mAxisStatus[i], StatusMotorMoving))
        /\ loopFlags.isAllMotorOn = (\A i \in Axes : ~BitSet(mAxisStatus[i], StatusMotorOff))
        /\ loopFlags.isAllMotorOff = (\A i \in Axes : BitSet(mAxisStatus[i], StatusMotorOff))
        /\ ~(loopFlags.isAllMotorOn /\ loopFlags.isAllMotorOff)

\* C4 case: a successful cycle read one axis on and moving, the other off
C4_Witness ==
    /\ op.name = "RunRecord"
    /\ BitSet(mAxisStatus[1], StatusMotorMoving) /\ ~BitSet(mAxisStatus[1], StatusMotorOff)
    /\ BitSet(mAxisStatus[2], StatusMotorOff) /\ ~BitSet(mAxisStatus[2], StatusMotorMoving)
    /\ loopFlags = [isAnyMoving |-> TRUE, isAllMotorOn |-> FALSE, isAllMotorOff |-> FALSE]

\* C5: a successful cycle reads mixed motor power.  While the guard counter
\* (as this cycle's decrement leaves it) is nonzero, no command is sent and
\* no warning is raised; once it is zero, MO is sent to every configured
\* channel with a warning and the cycle publishes Disabled.
C5_MixedPowerForcedOff ==
    [][(op'.name = "RunRecord" /\ ~loopFlags'.isAllMotorOn /\ ~loopFlags'.isAllMotorOff) =>
          LET guard == IF mTimeout > 0 THEN mTimeout - 1 ELSE 0
          IN  IF guard # 0
              THEN sent' = <<>> /\ msgs' = <<>> /\ mTimeout' = guard
              ELSE /\ Len(sent') >= 1
                   /\ sent'[Len(sent')] = "MO BD"
                   /\ msgs' = <<"warning: inconsistent motor power (turning off)">>
                   /\ m_op_state'.state = DISABLED_]_vars

\* C5 case: the guard ran out under mixed power and the motors were
\* switched off
C5_Witness ==
    /\ op.name = "RunRecord"
    /\ ~loopFlags.isAllMotorOn /\ ~loopFlags.isAllMotorOff
    /\ sent = <<"MO BD">>
    /\ m_op_state.state = DISABLED_

\* C5 case: mixed power is tolerated while the guard counter runs
C5_GuardedWitness ==
    /\ op.name = "RunRecord"
    /\ ~loopFlags.isAllMotorOn /\ ~loopFlags.isAllMotorOff
    /\ mTimeout > 0 /\ sent = <<>>

\* C6: a cycle whose data-record read fails publishes Fault with busy
\* false and leaves stop codes, change flags, homed flags and status words
\* as the last good record set them; the request queue and the homing
\* state machine are still served in that cycle.
C6_FailedReadKeepsFrameState ==
    /\ [][op'.name = "RunRecordError" =>
             /\ m_op_state'.state = FAULT_ /\ ~m_op_state'.busy
             /\ ~mMotionActive' /\ ~mMotorPowerOn'
             /\ UNCHANGED axisVars
             /\ pc' = "queue" /\ nCmds' = 0]_vars
    /\ [](op.name = "RunRecordError" =>
             /\ ENABLED RunSwitch
             /\ ENABLED (\E mask \in MaskInputs : UnHome(mask))
             /\ ENABLED hold)

\* C6 case: in a cycle whose read failed, the homing state machine acted on
\* the stop code of an earlier record
C6_Witness ==
    /\ op.name = "RunSwitch"
    /\ m_op_state.state = FAULT_
    /\ mState = ST_HOMING
    /\ \E i \in Axes : mStopCodeChange[i] /\ mStopCode[i] = SC_FindEdge
    /\ msgs # <<>>

\* C7 as stated: every cycle publishes an operating state for its outcome;
\* a cycle without a connection publishes Fault.
C7_NoConnectionPublishesFault ==
    (pc = "queue" /\ ~mGalil) => m_op_state.state = FAULT_

\* C8: a right-sized Home request processed in Idle with motor power on is
\* accepted iff the filtered mask is non-empty; then the state is Homing
\* and the pending mask is the filtered mask; otherwise nothing is sent and
\* the state stays Idle.
C8_HomeAcceptedIffFiltered ==
    [][\A mask \in [Axes -> BOOLEAN] :
          (Home(mask) /\ mState = ST_IDLE /\ mMotorPowerOn) =>
              IF AnyTrue(Filtered(mask))
              THEN /\ mState' = ST_HOMING
                   /\ mHomingMask' = Filtered(mask)
                   /\ sent' # <<>>
              ELSE /\ mState' = ST_IDLE
                   /\ sent' = <<>>]_vars

\* C8 case: Home was accepted and the pending mask lacks the requested
\* axis that has an absolute encoder
C8_Witness ==
    /\ op.name = "Home"
    /\ mState = ST_HOMING
    /\ mNumAxes = 2 /\ mEncoderAbsolute = <<FALSE, TRUE>>
    /\ mHomingMask = <<TRUE, FALSE>>
    /\ sent # <<>>

\* C8 case: Home in Idle with power on named only absolute-encoder axes
C8_EmptyWitness ==
    /\ op.name = "Home"
    /\ mState = ST_IDLE /\ mMotorPowerOn
    /\ msgs = <<"warning: Home: no valid axes">>
    /\ sent = <<>>

\* C9 as stated: a Home request processed in Idle while motor power is off
\* changes nothing: the state stays Idle, the pending mask is as before and
\* no command is sent.
C9_HomePowerOffNoChange ==
    [][\A mask \in MaskInputs :
          (Home(mask) /\ mState = ST_IDLE /\ ~mMotorPowerOn) =>
              /\ mState' = ST_IDLE
              /\ mHomingMask' = mHomingMask
              /\ sent' = <<>>]_vars

\* C10 as stated: servo_jp or servo_jr with a goal whose size is not the
\* number of axes sends no command to the controller, moving or not.
C10_WrongSizeGoalSendsNothing ==
    [][\A goal \in GoalInputs :
          ((servo_jp(goal) \/ servo_jr(goal)) /\ Len(goal) # mNumAxes) =>
              sent' = <<>>]_vars

\* the requests that command motion
MotionRequests == {"servo_jp", "servo_jr", "servo_jv", "hold", "Home", "FindEdge", "FindIndex"}

\* C11: motor power counts as on only after a successful cycle whose record
\* showed every motor on (off after a failed read); whenever it counts as
\* off, servo_jp, servo_jr, servo_jv, hold, Home, FindEdge and FindIndex
\* send no command to the controller.
C11_PowerOffSendsNothing ==
    [][/\ (op'.name = "RunRecord" => mMotorPowerOn' = loopFlags'.isAllMotorOn)
       /\ (op'.name = "RunRecordError" => ~mMotorPowerOn')
       /\ (op'.name \in MotionRequests =>
              /\ mMotorPowerOn' = mMotorPowerOn
              /\ (~mMotorPowerOn => sent' = <<>>))]_vars

\* C11 case: FindEdge for an incremental axis was refused because the last
\* record showed the motors off
C11_Witness ==
    /\ op.name = "FindEdge"
    /\ ~mMotorPowerOn /\ mGalil /\ m_op_state.state = DISABLED_
    /\ AnyTrue(mHomingMask)
    /\ msgs = <<"error: FindEdge: motor power is off">>
    /\ sent = <<>>

\* the letters of a set of channels, in ascending channel order
AscendingLetters(S) ==
    (IF 0 \in S THEN "A" ELSE "") \o (IF 1 \in S THEN "B" ELSE "")
    \o (IF 2 \in S THEN "C" ELSE "") \o (IF 3 \in S THEN "D" ELSE "")
    \o (IF 4 \in S THEN "E" ELSE "") \o (IF 5 \in S THEN "F" ELSE "")
    \o (IF 6 \in S THEN "G" ELSE "") \o (IF 7 \in S THEN "H" ELSE "")

\* every command a verb can form with a list of channels
CommandsOf(verb) == {verb \o AscendingLetters(S) : S \in SUBSET (0..3)}

\* C12: on a controller model without limit disable where some axis homes
\* at or beyond a travel limit, an accepted Home ends with FE then BG on
\* the channels of the requested axes (those with incremental encoders)
\* and sends no HM; in every other configuration it
\* ends with HM then BG and sends no FE.
C12_OneHomingStrategy ==
    [][\A mask \in [Axes -> BOOLEAN] :
          (Home(mask) /\ mState = ST_IDLE /\ mState' = ST_HOMING) =>
              LET axes == AscendingLetters({mAxisToGalilIndexMap[i] :
                                               i \in {j \in Axes : Filtered(mask)[j]}})
                  custom == ~ModelHasLD /\ (\E i \in Axes : mHomeLimitDisable[i] # 0)
                  n == Len(sent')
              IN  /\ n >= 2
                  /\ sent'[n] = "BG " \o axes
                  /\ sent'[n - 1] = (IF custom THEN "FE " ELSE "HM ") \o axes
                  /\ \A k \in 1..n :
                        sent'[k] \notin CommandsOf(IF custom THEN "HM " ELSE "FE ")]_vars

\* C12 case: on the DMC-2103 with channels A and C, where only axis 1 homes
\* at a limit, Home of both axes sent FE and BG to A and C
C12_Witness ==
    /\ op.name = "Home"
    /\ mModel = GetModelIndex(2103) /\ mAxisToGalilIndexMap = <<0, 2>>
    /\ mHomeLimitDisable = <<2, 0>>
    /\ mHomingMask = <<TRUE, TRUE>>
    /\ mState = ST_HOMING
    /\ sent = <<"FE AC", "BG AC">>

\* C12 case: without a home position at a limit the same request sends HM
C12_NativeWitness ==
    /\ op.name = "Home"
    /\ mModel = GetModelIndex(1802)
    /\ mState = ST_HOMING
    /\ sent = <<"HM AB", "BG AB">>

\* a step is the homing state machine of a cycle in state Homing
HomingStep == op'.name = "RunSwitch" /\ mState = ST_HOMING

\* C13: in a Homing cycle, each pending axis whose latest stop code is
\* homing-complete leaves the pending mask and is marked homed; AM, then DP
\* with round(homePos * countsPerUnit) + encoderOffset for its channel,
\* then SP with the unchanged speed are sent in that order, and the status
\* "finished homing on axis" is reported.
C13_HomingComplete ==
    [][HomingStep =>
          \A i \in Axes :
             (mHomingMask[i] /\ mStopCode[i] = SC_Homing) =>
                LET chan == AscendingLetters({mAxisToGalilIndexMap[i]})
                    counts == RoundDiv(mHomePos[i] * mEncoderCountsPerUnit[i], 1000)
                              + mEncoderOffset[i]
                    speed == galil_cmd_common("SetSpeed", "SP ", mSpeed, FALSE).sent
                IN  /\ ~mHomingMask'[i]
                    /\ IsHomed'[i]
                    /\ mSpeed' = mSpeed
                    /\ \E k \in 1..(Len(sent') - 2) :
                          /\ sent'[k] = "AM " \o chan
                          /\ sent'[k + 1] = "DP" \o chan \o "=" \o ToString(counts)
                          /\ <<sent'[k + 2]>> = speed
                    /\ \E m \in 1..Len(msgs') :
                          msgs'[m] = "status: finished homing on axis " \o ToString(i - 1)]_vars

\* C13 case: axis 2 (channel C, home 0.05 at 1010 counts per unit, offset 3)
\* completed homing while axis 1 is still pending
C13_Witness ==
    /\ op.name = "RunSwitch"
    /\ mState = ST_HOMING
    /\ mHomingMask = <<TRUE, FALSE>> /\ IsHomed = <<FALSE, TRUE>>
    /\ mStopCode[2] = SC_Homing
    /\ sent = <<"AM C", "DPC=54", "SP 50,,25">>
    /\ msgs = <<"status: finished homing on axis 1">>

\* stop codes of axis i that the edge / limit branch of the machine handles
EdgeHandled(i) ==
    \/ mStopCode[i] = SC_FindEdge
    \/ (mHomeCustom /\ mStopCode[i] \in {SC_FwdLim, SC_RevLim})

\* the commands the homing machine addresses to the channel of axis i
AxisCommands(i) ==
    LET chan == AscendingLetters({mAxisToGalilIndexMap[i]})
    IN  {"AM " \o chan, "FI " \o chan, "BG " \o chan,
         "JG" \o chan \o "=" \o ToString(FindIndexSpeed),
         "DP" \o chan \o "=" \o ToString(HomePosCounts(i))}

\* C14: in a Homing cycle, a pending axis whose stop code is neither
\* running, homing-complete nor handled as edge or limit is dropped from
\* the pending mask when the code changed in the last record, without its
\* homed flag being set and without a command for its channel; when the
\* code did not change the axis stays pending.  No axis is added to the
\* pending mask while the state stays Homing.
C14_AbortedAxisDropped ==
    [][/\ HomingStep =>
             \A i \in Axes :
                (mHomingMask[i] /\ ~EdgeHandled(i)
                                /\ mStopCode[i] \notin {SC_Running, SC_Homing}) =>
                   IF mStopCodeChange[i]
                   THEN /\ ~mHomingMask'[i]
                        /\ IsHomed'[i] = IsHomed[i]
                        /\ \A k \in 1..Len(sent') : sent'[k] \notin AxisCommands(i)
                   ELSE mHomingMask'[i]
       /\ (mState = ST_HOMING /\ mState' = ST_HOMING) =>
             \A i \in Axes : mHomingMask'[i] => mHomingMask[i]]_vars

\* C14 case: axis 1 stopped with code 1 during homing and was dropped, not
\* homed, while axis 2 is still pending
C14_Witness ==
    /\ op.name = "RunSwitch"
    /\ mState = ST_HOMING
    /\ mHomingMask = <<FALSE, TRUE>>
    /\ ~IsHomed[1]
    /\ mStopCode[1] = SC_Stopped /\ mStopCodeChange[1]
    /\ msgs = <<"status: found stop code 1 when homing axis 0">>
    /\ sent = <<>>

\* C14 case: the same stop code without a change leaves the axis pending
C14_StaysWitness ==
    /\ op.name = "RunSwitch"
    /\ mState = ST_HOMING
    /\ mHomingMask[1] /\ mStopCode[1] = SC_Stopped /\ ~mStopCodeChange[1]
    /\ msgs = <<>>

\* how often the completion status is among the messages of the next state
FinishedCount ==
    Cardinality({m \in 1..Len(msgs') : msgs'[m] = "status: finished homing all axes"})

\* C15: the state goes from Homing to Idle in exactly the cycle whose
\* homing machine leaves the pending mask empty: no other step ends the
\* session, the state is never Homing with an empty mask, and the status
\* "finished homing all axes" is reported once, by that step only.
C15_IdleWhenMaskEmpties ==
    [][/\ HomingStep =>
             /\ (mState' = ST_IDLE) = ~AnyTrue(mHomingMask')
             /\ FinishedCount = (IF mState' = ST_IDLE THEN 1 ELSE 0)
       /\ ~HomingStep =>
             /\ FinishedCount = 0
             /\ (mState = ST_HOMING => mState' = ST_HOMING)
       /\ (mState' = ST_HOMING => AnyTrue(mHomingMask'))]_vars

\* C15 case: a session ended with both axes dropped as aborted, neither
\* homed, and reported completion
C15_Witness ==
    /\ op.name = "RunSwitch"
    /\ mState = ST_IDLE
    /\ mHomingMask = <<FALSE, FALSE>> /\ IsHomed = <<FALSE, FALSE>>
    /\ mStopCode = <<SC_Stopped, SC_FwdLim>>
    /\ msgs = <<"status: found stop code 2 when homing axis 1",
                "status: finished homing all axes">>

\* the LD commands the configured channels can be sent
LimitDisableCommands ==
    {WriteCmdValues("LD ", d, mGalilIndexValid, mGalilIndexMax) : d \in [Channels -> 0..3]}

\* C16 as stated: when a homing session ends (Homing to Idle), an LD
\* command restoring the limit switches is sent if and only if the Home
\* request that started the session sent an LD command.
C16_RestoreIffDisabled ==
    [][(HomingStep /\ mState' = ST_IDLE) =>
          ((\E k \in 1..Len(sent') : sent'[k] \in LimitDisableCommands) <=> sessionLD)]_vars

\* C17: there is no homing timeout.  While the state is Homing an axis
\* leaves the pending mask only in the homing machine of a cycle in which
\* its stop code is homing-complete or is a changed code other than
\* running, edge or handled limit; an axis whose stop code is Running stays
\* pending and the state stays Homing, cycle after cycle.
C17_NoHomingTimeout ==
    [][mState = ST_HOMING =>
          \A i \in Axes :
             /\ (mHomingMask[i] /\ ~mHomingMask'[i]) =>
                   /\ op'.name = "RunSwitch"
                   /\ \/ mStopCode[i] = SC_Homing
                      \/ /\ mStopCodeChange[i]
                         /\ mStopCode[i] # SC_Running
                         /\ ~EdgeHandled(i)
             /\ (mHomingMask[i] /\ mStopCode[i] = SC_Running) =>
                   (mHomingMask'[i] /\ mState' = ST_HOMING)]_vars

\* C17 case: both axes have reported Running for at least two records in a
\* row and are still pending, with nothing sent
C17_Witness ==
    /\ op.name = "RunSwitch"
    /\ mState = ST_HOMING
    /\ mHomingMask = <<TRUE, TRUE>>
    /\ mStopCode = <<SC_Running, SC_Running>>
    /\ mStopCodeChange = <<FALSE, FALSE>>
    /\ sent = <<>> /\ msgs = <<>>

\* C18: for any subset of the axes and any assignment of axes to channels,
\* the validity mask is true at exactly the channels of the axes in the
\* subset, and the letter string lists exactly those channels, in strictly
\* ascending channel order.
C18_ValidityMaskAndLetters ==
    (fn.name = "GetGalilAxes") =>
        LET chans == {mAxisToGalilIndexMap[i] : i \in {j \in Axes : fn.mask[j]}}
        IN  /\ DOMAIN fn.galilIndexValid = 0..(mGalilIndexMax - 1)
            /\ \A ch \in 0..(mGalilIndexMax - 1) : fn.galilIndexValid[ch] = (ch \in chans)
            /\ fn.galilAxes = AscendingLetters(chans)
            /\ Len(fn.galilAxes) = Cardinality(chans)

\* C18 case: axes 1, 2, 3 on channels D, A, C; the subset of axes 1 and 3
\* gives the letters CD
C18_Witness ==
    /\ fn.name = "GetGalilAxes"
    /\ mAxisToGalilIndexMap = <<3, 0, 2>>
    /\ fn.mask = <<TRUE, FALSE, TRUE>>
    /\ fn.galilIndexValid = [ch \in 0..3 |-> ch \in {2, 3}]
    /\ fn.galilAxes = "CD"

\* C20 as stated: Configure does not complete with one channel assigned to
\* two axes, so after configuration the channels of the axes are pairwise
\* distinct, the channel-to-axis map inverts the axis-to-channel map, and a
\* channel of no axis maps to no axis.
C20_ChannelsDistinct ==
    /\ \A i, j \in Axes : mAxisToGalilIndexMap[i] = mAxisToGalilIndexMap[j] => i = j
    /\ \A i \in Axes : GalilIndexToAxisMap[mAxisToGalilIndexMap[i]] = i - 1
    /\ \A ch \in 0..7 :
          (\A i \in Axes : mAxisToGalilIndexMap[i] # ch) => GalilIndexToAxisMap[ch] = mNumAxes

\* the fields f[i], ..., f[num - 1] separated by single commas
RECURSIVE JoinFields(_, _, _)
JoinFields(f, i, num) ==
    IF i = num - 1 THEN f[i] ELSE f[i] \o "," \o JoinFields(f, i + 1, num)

\* C19: WriteCmdValues gives the verb followed by one field per channel
\* 0..num-1, separated by single commas (num - 1 of them), the field of an
\* absent channel empty and no comma after the last field; "PA " with
\* values 10, 20, 30 on channels 0, 2, 3 of 4 gives "PA 10,,20,30".
C19_ValuesCommand ==
    (fn.name = "WriteCmdValues") =>
        LET field == [ch \in 0..(fn.num - 1) |->
                         IF fn.valid[ch] THEN ToString(fn.data[ch]) ELSE ""]
        IN  /\ fn.out = fn.cmd \o JoinFields(field, 0, fn.num)
            /\ (/\ fn.cmd = "PA " /\ fn.num = 4
                /\ fn.valid = [ch \in 0..3 |-> ch # 1]
                /\ fn.data = [ch \in 0..3 |-> <<10, 0, 20, 30>>[ch + 1]])
               => fn.out = "PA 10,,20,30"

\* C19 case: the example of the claim
C19_Witness ==
    /\ fn.name = "WriteCmdValues"
    /\ fn.cmd = "PA " /\ fn.num = 4
    /\ fn.valid = [ch \in 0..3 |-> ch # 1]
    /\ fn.data = [ch \in 0..3 |-> <<10, 0, 20, 30>>[ch + 1]]
    /\ fn.out = "PA 10,,20,30"

\* C19 case: absent channels at the end keep their separators
C19_TailWitness ==
    /\ fn.name = "WriteCmdValues"
    /\ fn.num = 4
    /\ fn.valid = [ch \in 0..3 |-> ch = 0]
    /\ fn.out = "ZA -500,,,"

\* C21: for each of the six models, a tick whose frame has exactly the
\* length axisDataOffset + maxChannel x axisDataStride is decoded (no Fault
\* is published), and a tick whose frame is one byte shorter is handled
\* like a transport failure: Fault is published and the frame-derived axis
\* state is left alone.
C21_MinimumFrameLength ==
    [][\A len \in FrameLengths, gRec \in UniformRecords :
          RunFrame(len, gRec) =>
             IF len >= FrameEnd
             THEN m_op_state'.state # FAULT_
             ELSE m_op_state'.state = FAULT_ /\ UNCHANGED axisVars]_vars

\* the requests that stop a motion in progress before they begin a new one
StopAndBeginRequests == {"Home", "servo_jp", "servo_jr", "FindEdge", "FindIndex"}

\* C22: when Home, servo_jp, servo_jr, FindEdge or FindIndex sends BG, BG
\* is the last command of the request and is sent once; the command just
\* before it is the setpoint (servo_jp, servo_jr) or the homing verb on the
\* same channels; every ST of the request comes before that command and
\* addresses the channels of BG; and ST is sent when the record of the
\* cycle showed an axis moving.  Outside Home the request sends nothing
\* else.
C22_StopBeforeBegin ==
    [][(/\ op'.name \in StopAndBeginRequests
        /\ \E k \in 1..Len(sent') : sent'[k] \in CommandsOf("BG ")) =>
          LET n == Len(sent')
              axes == CHOOSE S \in SUBSET (0..3) : sent'[n] = "BG " \o AscendingLetters(S)
              letters == AscendingLetters(axes)
              stops == {k \in 1..n : sent'[k] \in CommandsOf("ST ")}
          IN  /\ n >= 2
              /\ sent'[n] \in CommandsOf("BG ")
              /\ \A k \in 1..(n - 1) : sent'[k] \notin CommandsOf("BG ")
              /\ sent'[n - 1] \notin CommandsOf("ST ")
              /\ op'.name \in {"Home", "FindEdge", "FindIndex"} =>
                    sent'[n - 1] \in {"HM " \o letters, "FE " \o letters, "FI " \o letters}
              /\ \A k \in stops : k < n - 1 /\ sent'[k] = "ST " \o letters
              /\ loopFlags.isAnyMoving => stops # {}
              /\ op'.name # "Home" =>
                    n = (IF loopFlags.isAnyMoving THEN 3 ELSE 2)]_vars

\* C22 case: servo_jp in a cycle whose record showed the axis on channel B
\* moving sent ST, the absolute setpoint and BG
C22_Witness ==
    /\ op.name = "servo_jp"
    /\ loopFlags.isAnyMoving
    /\ sent = <<"ST B", "PA ,15", "BG B">>

\* C22 case: FindIndex while moving
C22_FindWitness ==
    /\ op.name = "FindIndex"
    /\ loopFlags.isAnyMoving
    /\ sent = <<"ST A", "FI A", "BG A">>

\* C23: after an accepted UnHome of axis i, or the unhome step of an
\* accepted Home containing axis i, every cycle reports axis i not homed
\* and fully-homed false until axis i completes homing.  With motor power
\* on, mHomingMask[i] holds exactly from such a request until the homing
\* machine drops axis i; the statement is made for the models whose record
\* carries no user variable, after the record of a cycle was read.
C23_UnHomedUntilHomed ==
    \A i \in Axes :
       (ModelAxisDataSize # ADmax /\ op.name = "RunRecord" /\ mHomingMask[i]) =>
          (~IsHomed[i] /\ ~m_op_state.homed)

\* C29: an axis that completed homing is reported homed, and counted in
\* fully-homed, on every later successful cycle until the next accepted
\* UnHome or Home for it.  Stated for the first such cycle: the record
\* read right after the homing machine finished axis i (no request can
\* run in between) leaves the axis homed, and fully-homed is published
\* when the other axes are homed too.
C29_HomedAfterCompletion ==
    [][\A i \in Axes :
          (/\ op.name = "RunSwitch"
           /\ \E k \in 1..Len(msgs) :
                 msgs[k] = "status: finished homing on axis " \o ToString(i - 1)
           /\ op'.name = "RunRecord") =>
              /\ IsHomed'[i]
              /\ (\A j \in Axes \ {i} : IsHomed'[j]) => m_op_state'.homed]_vars

\* the axis configured on channel ch (the last one, as galil_cmd_common
\* leaves it)
AxisOnChannel(ch) ==
    CHOOSE i \in Axes : /\ mAxisToGalilIndexMap[i] = ch
                        /\ \A j \in Axes : mAxisToGalilIndexMap[j] = ch => j <= i

\* C24: an accepted Home sends, in this order and nothing else: ZA with a
\* zero for each requested channel (on the models with ZA), ST for the
\* requested channels (when the record of the cycle showed motion), LD
\* with the homing limit masks (when the model has LD and they are set and
\* differ from the configured ones), HM or FE for the requested channels,
\* BG for the requested channels; the state is Homing after the request
\* exactly when all of them were sent, and a Home that does not enter
\* Homing sends no HM, FE or BG.
C24_HomeEntryOrder ==
    [][\A mask \in MaskInputs :
          Home(mask) =>
             LET sel == {mAxisToGalilIndexMap[i] :
                            i \in {j \in Axes : j <= Len(mask) /\ Filtered(mask)[j]}}
                 letters == AscendingLetters(sel)
                 zaField == [ch \in Channels |-> IF ch \in sel THEN "0" ELSE ""]
                 ldField == [ch \in Channels |->
                                IF \E i \in Axes : mAxisToGalilIndexMap[i] = ch
                                THEN ToString(mHomeLimitDisable[AxisOnChannel(ch)])
                                ELSE ""]
                 za == IF ModelHasZA
                       THEN <<"ZA " \o JoinFields(zaField, 0, mGalilIndexMax)>> ELSE <<>>
                 st == IF loopFlags.isAnyMoving THEN <<"ST " \o letters>> ELSE <<>>
                 ld == IF /\ ModelHasLD
                          /\ \E i \in Axes : mHomeLimitDisable[i] # 0
                          /\ mHomeLimitDisable # mLimitDisable
                       THEN <<"LD " \o JoinFields(ldField, 0, mGalilIndexMax)>> ELSE <<>>
                 verb == IF mHomeCustom THEN "FE " ELSE "HM "
             IN  IF mState = ST_IDLE /\ mState' = ST_HOMING
                 THEN sent' = za \o st \o ld \o <<verb \o letters, "BG " \o letters>>
                 ELSE /\ mState' = mState
                      /\ \A k \in 1..Len(sent') :
                            sent'[k] \notin CommandsOf("HM ") \cup CommandsOf("FE ")
                                            \cup CommandsOf("BG ")]_vars

\* C24 case: Home of the axis on channel B of the DMC-4000, which homes at
\* its lower limit, while the axis is moving: all five commands
C24_Witness ==
    /\ op.name = "Home"
    /\ mState = ST_HOMING
    /\ loopFlags.isAnyMoving
    /\ sent = <<"ZA ,0", "ST B", "LD ,2", "HM B", "BG B">>

\* the record of the cycle in progress was read (a failed read publishes
\* Fault, and nothing else does)
FrameRead == m_op_state.state # FAULT_

\* the pending axes whose stop code is handled by the edge / limit branch
\* and is flagged as changed
EdgeFound == {i \in Axes : mHomingMask[i] /\ EdgeHandled(i) /\ mStopCodeChange[i]}

\* the find-index chain for the channel of axis i
ChainOf(i) ==
    LET chan == AscendingLetters({mAxisToGalilIndexMap[i]})
    IN  <<"AM " \o chan, "JG" \o chan \o "=" \o ToString(FindIndexSpeed),
          "FI " \o chan, "BG " \o chan>>

\* how often cmd is among the commands of the next state
SentCount(cmd) == Cardinality({k \in 1..Len(sent') : sent'[k] = cmd})

\* C25: under the custom strategy, in the homing machine of a cycle whose
\* record changed the stop code of a pending axis to edge-found,
\* forward-limit or reverse-limit, AM, JG with the fixed search speed, FI
\* and BG are sent to the channel of that axis, in that order and once,
\* the matching status is reported and the axis stays pending; no FI is
\* sent to the channel of another axis.
C25_FindIndexChain ==
    [][(HomingStep /\ mHomeCustom /\ FrameRead) =>
          \A i \in Axes :
             IF i \in EdgeFound
             THEN /\ \E k \in 1..(Len(sent') - 3) : SubSeq(sent', k, k + 3) = ChainOf(i)
                  /\ \A c \in 1..4 : SentCount(ChainOf(i)[c]) = 1
                  /\ mHomingMask'[i] /\ IsHomed'[i] = IsHomed[i]
                  /\ \E m \in 1..Len(msgs') :
                        msgs'[m] = (IF mStopCode[i] = SC_FwdLim
                                    THEN "status: found forward limit on axis "
                                    ELSE IF mStopCode[i] = SC_RevLim
                                    THEN "status: found reverse limit on axis "
                                    ELSE "status: found homing edge on axis ")
                                   \o ToString(i - 1)
             ELSE /\ SentCount(ChainOf(i)[2]) = 0
                  /\ SentCount(ChainOf(i)[3]) = 0]_vars

\* C25 case: on the DMC-2103, axis 2 (channel C) reached its reverse limit
\* while axis 1 is still running
C25_Witness ==
    /\ op.name = "RunSwitch"
    /\ mState = ST_HOMING /\ mHomeCustom /\ FrameRead
    /\ mHomingMask = <<TRUE, TRUE>>
    /\ mStopCode = <<SC_Running, SC_RevLim>> /\ mStopCodeChange[2]
    /\ sent = <<"AM C", "JGC=-500", "FI C", "BG C">>
    /\ msgs = <<"status: found reverse limit on axis 1">>

\* C26: under the custom strategy the find-index chain of a pending axis
\* is sent once per change of its stop code to edge-found or limit-hit:
\* the homing machine of a cycle whose record could not be read, in which
\* no stop code changed, sends no FI.
C26_ChainOncePerChange ==
    [][(HomingStep /\ mHomeCustom /\ ~FrameRead) =>
          \A i \in Axes : SentCount(ChainOf(i)[3]) = 0]_vars

\* C27: under the native strategy, in a Homing cycle whose record was
\* read, a pending axis whose stop code changed to edge-found gets the
\* status "found homing edge" only: it stays pending, is not marked homed
\* and no command goes to its channel; a pending axis whose stop code
\* changed to forward-limit or reverse-limit is dropped from the pending
\* mask without being marked homed.  The homing machine of a native
\* session never sends FI or JG.
C27_NativeEdgeAndLimits ==
    [][(HomingStep /\ ~mHomeCustom) =>
          \A i \in Axes :
             /\ (FrameRead /\ mHomingMask[i] /\ mStopCodeChange[i]
                           /\ mStopCode[i] = SC_FindEdge) =>
                   /\ mHomingMask'[i] /\ IsHomed'[i] = IsHomed[i]
                   /\ \A k \in 1..Len(sent') : sent'[k] \notin AxisCommands(i)
                   /\ \E m \in 1..Len(msgs') :
                         msgs'[m] = "status: found homing edge on axis " \o ToString(i - 1)
             /\ (FrameRead /\ mHomingMask[i] /\ mStopCodeChange[i]
                           /\ mStopCode[i] \in {SC_FwdLim, SC_RevLim}) =>
                   /\ ~mHomingMask'[i] /\ IsHomed'[i] = IsHomed[i]
             /\ SentCount(ChainOf(i)[2]) = 0
             /\ SentCount(ChainOf(i)[3]) = 0]_vars

\* C27 case: on the DMC-1806, axis 1 (channel A) found the homing edge and
\* axis 2 (channel C) ran into its reverse limit in the same record
C27_Witness ==
    /\ op.name = "RunSwitch"
    /\ mState = ST_HOMING /\ ~mHomeCustom /\ FrameRead
    /\ mStopCode = <<SC_FindEdge, SC_RevLim>>
    /\ mStopCodeChange = <<TRUE, TRUE>>
    /\ mHomingMask = <<TRUE, FALSE>> /\ IsHomed = <<FALSE, FALSE>>
    /\ sent = <<>>
    /\ msgs = <<"status: found homing edge on axis 0",
                "status: found stop code 3 when homing axis 1">>

\* C28: a cycle whose record was read and whose isAnyMoving differs from
\* the busy value of the last operating-state event that was emitted
\* emits an operating-state event.
C28_BusyChangeEmitsEvent ==
    [][(/\ op'.name = "RunRecord"
        /\ lastEvent # NoEvent
        /\ loopFlags'.isAnyMoving # lastEvent.busy) => events' # <<>>]_vars

\* C30: an axis is marked homed or dropped only on a stop code read after
\* the HM / FE and BG commands of its session were sent: the homing
\* machine of the cycle in which Home was accepted, which sees the stop
\* codes of the record read before the request, neither completes nor
\* drops an axis.
C30_NoCompletionInHomeCycle ==
    [][(/\ op.name = "Home"
        /\ \E m \in 1..Len(msgs) :
              msgs[m] \in {"status: starting home (HM)", "status: starting home (FE)"}
        /\ op'.name = "RunSwitch") =>
          (mHomingMask' = mHomingMask /\ IsHomed' = IsHomed)]_vars

\* C31: whenever the state is Idle the pending homing mask is empty.
C31_IdleMaskEmpty == (mState = ST_IDLE) => ~AnyTrue(mHomingMask)

\* the requests that go through CheckHomingMask
HomingRequests == {"Home", "UnHome", "FindEdge", "FindIndex"}

\* C32: while the state is Homing, a Home, UnHome, FindEdge or FindIndex
\* request is rejected: the pending mask and the state are unchanged, no
\* command is sent and a message is reported; and no step taken in state
\* Homing adds an axis to the pending mask.
C32_MaskOnlyShrinks ==
    [][(mState = ST_HOMING) =>
          /\ (op'.name \in HomingRequests =>
                 /\ mHomingMask' = mHomingMask
                 /\ mState' = ST_HOMING
                 /\ sent' = <<>>
                 /\ msgs' # <<>>)
          /\ \A i \in Axes : mHomingMask'[i] => mHomingMask[i]]_vars

\* C32 case: FindEdge was refused during a homing session
C32_Witness ==
    /\ op.name = "FindEdge"
    /\ mState = ST_HOMING /\ AnyTrue(mHomingMask)
    /\ sent = <<>>
    /\ msgs = <<"warning: FindEdge ignored because robot is homing">>

\* C33: with ticks that keep occurring and a controller that eventually
\* reports homing-complete, in a record that is read, for every axis that
\* stays pending, a homing session leads to state Idle with an empty
\* pending mask; and the homing machine marks a pending axis homed, and
\* drops it from the mask, in the cycle in which its stop code is
\* homing-complete.
C33_HomingTerminates ==
    /\ (mState = ST_HOMING) ~> (mState = ST_IDLE /\ ~AnyTrue(mHomingMask))
    /\ [][HomingStep =>
             \A i \in Axes :
                (mHomingMask[i] /\ mStopCode[i] = SC_Homing) =>
                   (IsHomed'[i] /\ ~mHomingMask'[i])]_vars

\* C33 case: a session of both axes ended with both reporting
\* homing-complete in the same cycle
C33_Witness ==
    /\ op.name = "RunSwitch"
    /\ mState = ST_IDLE /\ ~AnyTrue(mHomingMask)
    /\ mStopCode = <<SC_Homing, SC_Homing>>
    /\ IsHomed = <<TRUE, TRUE>>
    /\ \E k \in 1..Len(msgs) : msgs[k] = "status: finished homing on axis 0"
    /\ \E k \in 1..Len(msgs) : msgs[k] = "status: finished homing on axis 1"
    /\ msgs[Len(msgs)] = "status: finished homing all axes"

\* the record just read shows a mix of motors on and off
MixedPowerRead == ~loopFlags'.isAllMotorOn /\ ~loopFlags'.isAllMotorOff

\* C34: the guard counter of the mixed-power policy stays within
\* 0..20.  EnableMotorPower and DisableMotorPower set it to 20; a cycle
\* whose record was read decrements it by one when it is positive and, when
\* the policy forces the power off in that cycle (mixed power with the
\* counter at zero after the decrement), sets it to 20; a cycle whose read
\* failed and every other step leave it alone.
C34_GuardCounter ==
    /\ [](mTimeout \in 0..PowerTimeout)
    /\ [][/\ op'.name \in {"EnableMotorPower", "DisableMotorPower"} =>
                mTimeout' = PowerTimeout
          /\ op'.name = "RunRecord" =>
                mTimeout' = (IF MixedPowerRead /\ mTimeout <= 1 THEN PowerTimeout
                             ELSE IF mTimeout > 0 THEN mTimeout - 1 ELSE 0)
          /\ op'.name \notin {"EnableMotorPower", "DisableMotorPower", "RunRecord"} =>
                mTimeout' = mTimeout]_vars

\* C34 case: the first record read after a power request decremented the
\* counter while the motors showed mixed power
C34_Witness ==
    /\ op.name = "RunRecord"
    /\ mTimeout = PowerTimeout - 1
    /\ ~loopFlags.isAllMotorOn /\ ~loopFlags.isAllMotorOff

\* C34 case: a failed read with the counter running
C34_ErrorWitness ==
    /\ op.name = "RunRecordError"
    /\ mTimeout = PowerTimeout - 2


\* C35: a cycle forces the motor power off only when the record shows mixed
\* power and at least 19 cycles with a successfully read record have passed
\* since the latest power command (a forced power-off counts as one), so it
\* is at the earliest the 20th such cycle; and the 20th such cycle, or any
\* later one, forces the power off whenever its record shows mixed power
ForcedPowerOff ==
    /\ op'.name = "RunRecord"
    /\ \E k \in 1..Len(msgs') : msgs'[k] = "warning: inconsistent motor power (turning off)"
C35_ForcedPowerOffTiming ==
    [][/\ ForcedPowerOff => MixedPowerRead /\ sincePower >= PowerTimeout - 1
       /\ op'.name = "RunRecord" /\ MixedPowerRead /\ sincePower >= PowerTimeout - 1
             => ForcedPowerOff
       /\ ForcedPowerOff => sincePower' = 0]_vars
\* the 20th cycle after a power command has just forced the power off
C35_Witness ==
    /\ op.name = "RunRecord"
    /\ sincePower = 0
    /\ mTimeout = PowerTimeout
    /\ \E k \in 1..Len(msgs) : msgs[k] = "warning: inconsistent motor power (turning off)"
    /\ \E k \in 1..Len(sent) : sent[k] = "MO BD"
\* the 19th cycle after a power command read mixed power and sent nothing
C35_QuietWitness ==
    /\ op.name = "RunRecord"
    /\ sincePower = PowerTimeout - 1
    /\ ~loopFlags.isAllMotorOn /\ ~loopFlags.isAllMotorOff
    /\ sent = <<>>

\* C36: an axis with an absolute encoder is never in the mask of pending
\* axes, and it is marked homed after every cycle that read a record,
\* whatever Home, UnHome, FindEdge and FindIndex requests were processed
C36_AbsoluteAxisHomed ==
    /\ [](\A i \in Axes : mEncoderAbsolute[i] => ~mHomingMask[i])
    /\ [][op'.name = "RunRecord" => \A i \in Axes : mEncoderAbsolute[i] => IsHomed'[i]]_vars
\* a cycle of a homing session read a record while an axis with an absolute
\* encoder is configured next to the pending one
C36_Witness ==
    /\ op.name = "RunRecord"
    /\ mState = ST_HOMING
    /\ \E i \in Axes : mEncoderAbsolute[i] /\ IsHomed[i] /\ ~mHomingMask[i]
    /\ \E i \in Axes : ~mEncoderAbsolute[i] /\ mHomingMask[i]
\* a request that named only the axis with the absolute encoder was refused
C36_RefusedWitness ==
    /\ op.name \in HomingRequests
    /\ \E i \in Axes : mEncoderAbsolute[i]
    /\ \E k \in 1..Len(msgs) : msgs[k] = "warning: " \o op.name \o ": no valid axes"
    /\ sent = <<>>

\* the value the controller is to receive for logical axis i: the entry of
\* the vector in encoder counts (plus the offset where the caller asks for
\* it), or the entry itself for a register value
AxisValueOf(i) ==
    IF fn.scaled
    THEN (fn.data[i] * mEncoderCountsPerUnit[i]) \div 1000
         + (IF fn.useOffset THEN mEncoderOffset[i] ELSE 0)
    ELSE fn.data[i]

\* the command built has one field per channel below mGalilIndexMax, the
\* field of every axis' channel holds that axis' value and the field of a
\* channel of no axis is empty
ValuesByChannel ==
    \E field \in [Channels -> {""} \cup {ToString(AxisValueOf(i)) : i \in Axes}] :
        /\ \A i \in Axes : field[mAxisToGalilIndexMap[i]] = ToString(AxisValueOf(i))
        /\ \A ch \in Channels :
              (\A i \in Axes : mAxisToGalilIndexMap[i] # ch) => field[ch] = ""
        /\ fn.out = <<fn.cmd \o JoinFields(field, 0, mGalilIndexMax)>>

\* C37: every values command built from a per-axis vector (SP, AC, DC, PA,
\* PR, JG, DP, LD) has mGalilIndexMax comma-separated fields, the field at
\* the channel of logical axis i holds axis i's value and the field of a
\* channel of no axis is empty, for any assignment of axes to channels
C37_ValuesByChannel ==
    (fn.name = "galil_cmd_common") => ValuesByChannel

\* the same for the assignments that give every axis a channel of its own
C37_DistinctChannels ==
    (/\ fn.name = "galil_cmd_common"
     /\ \A i, j \in Axes : mAxisToGalilIndexMap[i] = mAxisToGalilIndexMap[j] => i = j)
        => ValuesByChannel

\* a command for three axes on the channels D, A, C (non-monotonic, sparse)
C37_Witness ==
    /\ fn.name = "galil_cmd_common"
    /\ mAxisToGalilIndexMap = <<3, 0, 2>>
    /\ fn.out = <<"PA 46,,99,13">>

\* the texts of the LD commands for the configured channels
LimitDisableTexts ==
    { "LD " \o JoinFields(f, 0, mGalilIndexMax) : f \in [Channels -> {"", "0", "1", "2", "3"}] }

\* the LD command that carries the register values read at Startup
StartupLimitText ==
    "LD " \o JoinFields([ch \in Channels |->
                            IF \E i \in Axes : mAxisToGalilIndexMap[i] = ch
                            THEN ToString(mLimitDisable[AxisOnChannel(ch)]) ELSE ""],
                        0, mGalilIndexMax)

\* a Home request was accepted: it started a homing session
HomeAccepted == op'.name = "Home" /\ mState # ST_HOMING /\ mState' = ST_HOMING

C38_EqualWitness ==
    /\ op.name = "Home"
    /\ mState = ST_HOMING
    /\ ModelHasLD
    /\ mHomeLimitDisable = mLimitDisable
    /\ mHomeLimitDisable = <<2, 0>>
    /\ mHomePos[1] = 0
    /\ \A k \in 1..Len(sent) : sent[k] \notin LimitDisableTexts

\* the texts of a command with a list of axes that names channel ch
AxesCommandsTo(verb, ch) ==
    {verb \o AscendingLetters(S) : S \in {T \in SUBSET (0..3) : ch \in T}}

\* the field texts of the values the motion requests of the model can send
GoalFieldTexts ==
    {""} \cup UNION { { ToString((g[i] * mEncoderCountsPerUnit[i]) \div 1000 + o) :
                           o \in {0, mEncoderOffset[i]} } :
                         g \in {h \in GoalInputs : Len(h) = mNumAxes}, i \in Axes }

\* the texts of a command with a list of values that has a value for channel ch
ValuesCommandsTo(verb, ch) ==
    { verb \o JoinFields(f, 0, mGalilIndexMax) :
         f \in {g \in [Channels -> GoalFieldTexts] : g[ch] # ""} }

\* the ST, PA, PR, JG and BG commands that address channel ch
MotionCommandsTo(ch) ==
    AxesCommandsTo("ST ", ch) \cup AxesCommandsTo("BG ", ch)
    \cup ValuesCommandsTo("PA ", ch) \cup ValuesCommandsTo("PR ", ch)
    \cup ValuesCommandsTo("JG ", ch)

\* C39 as stated: while the state is Homing, a servo_jp, servo_jr, servo_jv
\* or hold request sends no ST, PA, PR, JG or BG command to the channel of
\* an axis that is still pending.
C39_NoMotionWhileHoming ==
    [][(mState = ST_HOMING /\ op'.name \in {"servo_jp", "servo_jr", "servo_jv", "hold"}) =>
          \A i \in Axes : mHomingMask[i] =>
             \A k \in 1..Len(sent') : sent'[k] \notin MotionCommandsTo(mAxisToGalilIndexMap[i])]_vars

\* the motor power was turned off in this step: by a DisableMotorPower
\* request or by the mixed-power policy of the cycle
PowerTurnedOff ==
    \/ op'.name = "DisableMotorPower"
    \/ ForcedPowerOff

\* whether any axis is moving according to the most recent record: the one
\* just read in a cycle, the one of the current cycle for a request
MovingInLatestRecord ==
    IF op'.name = "RunRecord" THEN loopFlags'.isAnyMoving ELSE loopFlags.isAnyMoving

\* C40 as stated: whenever the motor power is turned off while an axis is
\* moving according to the most recent record (including the power-off
\* forced by the mixed-power policy in a cycle whose own record shows
\* motion), ST, then AM, then the SP speed restore are sent before MO; when
\* no axis is moving according to the most recent record only MO is sent.
C40_StopBeforePowerOff ==
    [][PowerTurnedOff =>
          sent' = IF MovingInLatestRecord
                  THEN <<"ST " \o AscendingLetters({mAxisToGalilIndexMap[i] : i \in Axes}),
                         "AM " \o AscendingLetters({mAxisToGalilIndexMap[i] : i \in Axes}),
                         "SP " \o JoinFields([ch \in Channels |->
                                     IF \E i \in Axes : mAxisToGalilIndexMap[i] = ch
                                     THEN ToString((mSpeed[AxisOnChannel(ch)]
                                             * mEncoderCountsPerUnit[AxisOnChannel(ch)]) \div 1000)
                                     ELSE ""], 0, mGalilIndexMax),
                         "MO " \o AscendingLetters({mAxisToGalilIndexMap[i] : i \in Axes})>>
                  ELSE <<"MO " \o AscendingLetters({mAxisToGalilIndexMap[i] : i \in Axes})>>]_vars

====
